---- MODULE Spec2Model ----
(***************************************************************************)
(* pico_link gesture core: the action modules' press/release handlers and  *)
(* the asyncio tasks they spawn (tap step, hold lifecycle, ramp loop,      *)
(* cover stop, light on/off tap), run by a single-threaded event loop.     *)
(*                                                                         *)
(* Time is discrete (one tick = one unit of hold_time/step_time).  A task  *)
(* is a coroutine with a program counter; the loop runs one task at a time *)
(* from one suspension point (await) to the next.  Handlers are plain      *)
(* synchronous calls and therefore atomic.                                 *)
(***************************************************************************)
EXTENDS Integers, Sequences, FiniteSets, TLC

\* ------------------------------------------------------------------ bounds
\* The last tick at which an event arrives, and the number of press/release
\* events of a run: MaxEvents when the run drives one button, MaxEventsPair
\* when it drives two.
MaxTime == 5
MaxEvents == 4
MaxEventsPair == 2
\* The number of events of a run that drives raise and lower of one fan or
\* light together (a ramp on one button, a tap on the other).
MaxEventsRamp == 3
\* The largest conf.fan_speeds, and the number of steps in a row, of the
\* runs that try the fan's step on every percentage.
MaxSpeeds == 9
\* The number of events the controller is sent in a run of the whole path
\* (event, profile, handler).
MaxEventsCtl == 2
MaxSteps == 3

\* ------------------------------------------------- configuration (conf.*)
hold_time == 3
step_time == 2
cover_step_pct == 50
fan_speeds == 3
light_step_pct == 40
light_low_pct == 5
light_on_pct == 100
media_player_vol_step == 10
fan_on_pct == 100

NoState == -1
NoTask == 0

\* A fan that reports a state but no percentage attribute: state "off", or
\* any other state ("on").
StateOff == -2
StateOther == -3

Domains == {"cover", "fan", "light", "media_player"}
Buttons == {"on", "off", "raise", "lower"}

\* The (category, bound profile name) pairs exercised.  Only LightActions
\* reads the profile name (_supports_onoff_hold).
Configs ==
    { <<"cover", "3BRL">>, <<"fan", "3BRL">>, <<"media_player", "3BRL">>,
      <<"light", "3BRL">>, <<"light", "P2B">> }

\* Buttons whose press/release reach gesture code of the handler: on/off of
\* a paddle (P2B) remote bound to a light, raise/lower everywhere else.
DeviceButtons(d, p) ==
    IF d = "light"
    THEN (IF p = "P2B" THEN {"on", "off"} ELSE {"raise", "lower"})
    ELSE {"raise", "lower"}

\* Reported numeric attribute at start (current_position, percentage,
\* brightness 0..255, volume in percent), or NoState when hass.states.get
\* returns None.
InitEntity(d) ==
    CASE d = "cover" -> {NoState, 50}
      [] d = "fan" -> {NoState, 50, 100}
      [] d = "light" -> {NoState, 128}
      [] d = "media_player" -> {NoState, 50}
      [] d = "switch" -> {NoState, 0}
      [] d = "none" -> {NoState}

\* ------------------------------------------------------------- arithmetic
Min(a, b) == IF a < b THEN a ELSE b
Max(a, b) == IF a > b THEN a ELSE b
Abs(a) == IF a < 0 THEN -a ELSE a

\* round() sending ties upwards
Round_half_up(n, d) == (2 * n + d) \div (2 * d)

\* Python round() of the quotient n/d (n >= 0, d > 0): ties go to even.
Round(n, d) ==
    LET q == n \div d
        r == n % d
    IN  IF 2 * r < d THEN q
        ELSE IF 2 * r > d THEN q + 1
        ELSE IF q % 2 = 0 THEN q ELSE q + 1

Direction(button) == IF button \in {"raise", "on"} THEN 1 ELSE -1

NoCmd == [op |-> "none", arg |-> 0]
Cmd(op, arg) == [op |-> op, arg |-> arg]

\* ---------------------------------------------------------- step commands
\* FanActions._build_speed_ladder: index 1..speeds here, 0..speeds-1 there.
Fan_build_speed_ladder(n) ==
    [i \in 1..n |-> Round((i - 1) * 100, n - 1)]

\* The first index whose ladder value is nearest to current (Python min with key).
Fan_nearest_idx(ladder, current) ==
    CHOOSE i \in 1..Len(ladder) :
        /\ \A j \in 1..Len(ladder) :
              Abs(ladder[i] - current) <= Abs(ladder[j] - current)
        /\ \A j \in 1..(i - 1) :
              Abs(ladder[j] - current) > Abs(ladder[i] - current)

\* _get_current_fan_percentage taking the configured on-percent whenever
\* the percentage is missing, whatever the state
Fan_get_current_fan_percentage_on(ent, on_pct) ==
    CASE ent = NoState -> NoState
      [] ent \in {StateOff, StateOther} -> on_pct
      [] OTHER -> ent

\* FanActions._get_current_fan_percentage: None without a state; without a
\* percentage 0 when the state is off, conf.fan_on_pct otherwise
Fan_get_current_fan_percentage(ent, on_pct) ==
    CASE ent = NoState -> NoState
      [] ent = StateOff -> 0
      [] ent = StateOther -> on_pct
      [] OTHER -> ent

\* _step_discrete moving by a ladder's spacing from the current percentage
\* itself, with no ladder index and no clamp
Fan_step_discrete_arith(n, ent, direction) ==
    IF ent = NoState THEN NoCmd
    ELSE Cmd("set_percentage", ent + direction * Round(100, n - 1))

\* FanActions._step_discrete, n being conf.fan_speeds and ent what
\* _get_current_fan_percentage returned
Fan_step_discrete(n, ent, direction) ==
    LET ladder == Fan_build_speed_ladder(n)
        idx == Fan_nearest_idx(ladder, ent)
        new_idx == Max(1, Min(Len(ladder), idx + direction))
    IN  IF ent = NoState THEN NoCmd
        ELSE IF new_idx = idx THEN NoCmd
        ELSE Cmd("set_percentage", ladder[new_idx])

\* _step_brightness with one clamp to 1..100 for both directions
Light_step_brightness_nofloor(step_pct, low_pct, ent, direction) ==
    LET current_pct == IF ent < 0 THEN 0 ELSE Round(ent * 100, 255)
        new_pct == Min(100, Max(1, current_pct + step_pct * direction))
    IN  IF ent = NoState THEN NoCmd
        ELSE Cmd("turn_on", new_pct)

\* _step_brightness converting with int() in the place of round()
Light_step_brightness_trunc(step_pct, low_pct, ent, direction) ==
    LET current_pct == IF ent < 0 THEN 0 ELSE (ent * 100) \div 255
        stepped == current_pct + step_pct * direction
        floored == IF direction < 0 THEN Max(low_pct, stepped) ELSE stepped
        new_pct == Min(100, Max(1, floored))
    IN  IF ent = NoState THEN NoCmd
        ELSE Cmd("turn_on", new_pct)

\* _step_brightness without the final max(1, .)
Light_step_brightness_from0(step_pct, low_pct, ent, direction) ==
    LET current_pct == IF ent < 0 THEN 0 ELSE Round(ent * 100, 255)
        stepped == current_pct + step_pct * direction
        floored == IF direction < 0 THEN Max(low_pct, stepped) ELSE stepped
        new_pct == Min(100, Max(0, floored))
    IN  IF ent = NoState THEN NoCmd
        ELSE Cmd("turn_on", new_pct)

\* _step_brightness taking the raw brightness (0..255) for a percentage
Light_step_brightness_raw(step_pct, low_pct, ent, direction) ==
    LET current_pct == IF ent < 0 THEN 0 ELSE ent
        stepped == current_pct + step_pct * direction
        floored == IF direction < 0 THEN Max(low_pct, stepped) ELSE stepped
        new_pct == Min(100, Max(1, floored))
    IN  IF ent = NoState THEN NoCmd
        ELSE Cmd("turn_on", new_pct)

\* LightActions._step_brightness, step_pct and low_pct being
\* conf.light_step_pct and conf.light_low_pct; a state without a brightness
\* attribute counts as 0
Light_step_brightness(step_pct, low_pct, ent, direction) ==
    LET current_pct == IF ent < 0 THEN 0 ELSE Round(ent * 100, 255)
        stepped == current_pct + step_pct * direction
        floored == IF direction < 0 THEN Max(low_pct, stepped) ELSE stepped
        new_pct == Min(100, Max(1, floored))
    IN  IF ent = NoState THEN NoCmd
        ELSE Cmd("turn_on", new_pct)

\* MediaPlayerActions._get_current_volume, in percent: None without a
\* state, 0 for a state without volume_level, and the level cut to 0..1
MP_get_current_volume(ent) ==
    IF ent = NoState THEN NoState
    ELSE IF ent < 0 THEN 0
    ELSE Max(0, Min(100, ent))

\* _step_volume with no clamp of the stepped level
MP_step_volume_noclamp(step_pct, ent, button) ==
    LET current_pct == MP_get_current_volume(ent)
        mult == IF button = "raise" THEN 1 ELSE -1
    IN  IF current_pct = NoState THEN NoCmd
        ELSE Cmd("volume_set", current_pct + step_pct * mult)

\* MediaPlayerActions._step_volume, step_pct being
\* conf.media_player_vol_step; the level sent is in percent
MP_step_volume(step_pct, ent, button) ==
    LET current_pct == MP_get_current_volume(ent)
        mult == IF button = "raise" THEN 1 ELSE -1
        new_pct == Max(0, Min(100, current_pct + step_pct * mult))
    IN  IF current_pct = NoState THEN NoCmd
        ELSE Cmd("volume_set", new_pct)

\* _step with no clamp
Cover_step_noclamp(step, ent, button) ==
    LET new_pos == IF button = "raise" THEN ent + step ELSE ent - step
    IN  IF ent < 0 THEN NoCmd
        ELSE Cmd("set_cover_position", new_pos)

\* CoverActions._step, step being conf.cover_step_pct; nothing when there
\* is no state or the state has no current_position
Cover_step(step, ent, button) ==
    LET new_pos == IF button = "raise"
                   THEN Min(100, ent + step)
                   ELSE Max(0, ent - step)
    IN  IF ent < 0 THEN NoCmd
        ELSE Cmd("set_cover_position", new_pos)

Cover_start_motion(direction) ==
    Cmd(IF direction = "raise" THEN "open_cover" ELSE "close_cover", 0)

Cover_stop == Cmd("stop_cover", 0)

Light_turn_on == Cmd("turn_on", light_on_pct)
Light_turn_off == Cmd("turn_off", 0)

\* CoverActions._open_to_position, open_pos being conf.cover_open_pos
Cover_open_to_position(open_pos) ==
    IF open_pos = 100
    THEN Cmd("open_cover", 0)
    ELSE Cmd("set_cover_position", open_pos)

Cover_close_full == Cmd("close_cover", 0)

\* MediaPlayerActions._turn_on / _turn_off: the power call, then the mute
\* call (is_volume_muted False: 0, True: 1)
MP_power(button) == Cmd(IF button = "on" THEN "turn_on" ELSE "turn_off", 0)
MP_mute(button) == Cmd("volume_mute", IF button = "on" THEN 0 ELSE 1)

\* The device as the State Source reports it once a command has been carried
\* out: a level command sets the reported level, the others leave it.
Report(dom, ent, cmd) ==
    CASE ent = NoState -> NoState
      [] cmd.op \in {"set_percentage", "set_cover_position", "volume_set"} -> cmd.arg
      [] cmd.op = "turn_on" /\ dom = "light" -> Round(cmd.arg * 255, 100)
      [] cmd.op = "turn_off" /\ dom \in {"light", "fan"} -> 0
      [] OTHER -> ent

\* ------------------------------------------------------------------ state
VARIABLES
    domain,         \* the device's category (utils.entity_domain())
    behavior_name,  \* ctrl.behavior_name, the bound profile
    active,         \* the buttons of the remote that the run drives
    budget,         \* the number of events of the run
    cover_open_pos, \* conf.cover_open_pos
    speeds,         \* conf.fan_speeds
    conf,           \* the other options of ctrl.conf, by name
    direction,      \* the "direction" attribute the fan reports
    moving,         \* the cover reports state "opening" or "closing"
    subscribed,     \* ctrl._unsub_event is set: handle_event is on the bus
    log,            \* history: what became of every event handle_event was given
    entity,         \* what utils.get_entity_state() reports
    now,            \* the clock, in ticks
    events,         \* press/release calls made so far
    pressed,        \* _pressed / _pressed_rl / _pressed_onoff, by button
    press_ts,       \* _press_ts / _press_ts_rl / _press_ts_onoff
    is_holding,     \* _is_holding_rl / _is_holding_onoff (LightActions)
    tasks,          \* _tasks / _tasks_rl / _tasks_onoff: task handle or NoTask
    loop_tasks,     \* every asyncio task created, by handle (1..Len)
    ready,          \* the loop's ready queue (FIFO) of task handles
    running,        \* the loop is part-way through its ready queue
    nsleep,         \* sleeps scheduled so far (orders timers of equal deadline)
    sink,           \* the commands handed to hass.services.async_call, in order
    presses         \* history: every press of a gesture button

vars == << domain, behavior_name, active, budget, cover_open_pos, speeds, conf,
          direction, moving, subscribed, log, entity, now, events, pressed, press_ts,
           is_holding, tasks, loop_tasks, ready, running, nsleep, sink, presses >>

\* What no handler and no task writes.
config == << domain, behavior_name, active, budget, cover_open_pos, speeds, conf,
            direction, moving, subscribed, log >>

\* The single step of a category, as its tap task and its ramp loop call it.
StepCmd(d, ent, button) ==
    CASE d = "cover" -> Cover_step(conf.cover_step_pct, ent, button)
      [] d = "fan" ->
           Fan_step_discrete(speeds, Fan_get_current_fan_percentage(ent, conf.fan_on_pct),
                             Direction(button))
      [] d = "light" ->
           Light_step_brightness(conf.light_step_pct, conf.light_low_pct, ent,
                                 Direction(button))
      [] d = "media_player" -> MP_step_volume(conf.media_player_vol_step, ent, button)

Budget == IF Cardinality(active) = 1 THEN MaxEvents ELSE MaxEventsPair

\* ------------------------------------------------------ command descriptors
\* An entry of conf.middle_button or of a scene's list, as
\* execute_button_action tells them apart: a mapping whose "action" splits
\* into domain.service (the command svc), something that is not a mapping
\* ("nodict"), a mapping whose action string does not split ("nodot"), and
\* a list of entries.
Item(svc) == [shape |-> "dict", svc |-> svc, list |-> << >>]
Malformed(shape) == [shape |-> shape, svc |-> "-", list |-> << >>]
ItemList(l) == [shape |-> "list", svc |-> "-", list |-> l]

\* The entries execute_button_action goes through for one action, in
\* order: the members of a list, or the action itself.
Leaves(action) == IF action.shape = "list" THEN action.list ELSE << action >>

\* The buttons conf.buttons gives a scene in the runs.
SceneButtons == {"on", "off"}

\* ctrl.conf as the runs that do not vary it have it: no middle_button
\* actions, one action per scene button.
DefaultConf ==
    [cover_step_pct |-> cover_step_pct, fan_on_pct |-> fan_on_pct,
     light_step_pct |-> light_step_pct, light_low_pct |-> light_low_pct,
     media_player_vol_step |-> media_player_vol_step,
     middle_button |-> << >>,
     buttons |-> [b \in SceneButtons |-> << Item("scene") >>]]

\* The clock runs on past the last event until every timer armed by then
\* has come due.
Horizon == MaxTime + Max(hold_time, step_time)

\* The handlers as constructed (empty dictionaries read with .get), an idle
\* loop, nothing sent.
Quiescent ==
    /\ subscribed = TRUE
    /\ log = << >>
    /\ now = 0
    /\ events = 0
    /\ pressed = [b \in Buttons |-> FALSE]
    /\ press_ts = [b \in Buttons |-> 0]
    /\ is_holding = [b \in Buttons |-> FALSE]
    /\ tasks = [b \in Buttons |-> NoTask]
    /\ loop_tasks = << >>
    /\ ready = << >>
    /\ running = FALSE
    /\ nsleep = 0
    /\ sink = << >>
    /\ presses = << >>

Init ==
    /\ \E c \in Configs : domain = c[1] /\ behavior_name = c[2]
    /\ active \in (SUBSET DeviceButtons(domain, behavior_name)) \ {{}}
    /\ budget = Budget
    /\ cover_open_pos = 100
    /\ speeds = fan_speeds
    /\ conf = DefaultConf
    /\ direction = "none"
    /\ moving = FALSE
    /\ entity \in InitEntity(domain)
    /\ Quiescent

\* --------------------------------------------------------- asyncio pieces
\* asyncio.create_task(coro): a new task, scheduled, not yet started.
\* pid is the press it was spawned for (0: spawned by a release).  item is
\* the index of the list entry a task executes and ev (history) the number of
\* the event that created it, for the tasks created one per list entry.
NewTask(kind, button, pid) ==
    [kind |-> kind, btn |-> button, pid |-> pid, pc |-> "new", wake |-> 0,
     seq |-> 0, cancel |-> FALSE, entered |-> -1, since |-> 0, stale |-> FALSE,
     iters |-> 0, last |-> -1, saw |-> NoState, item |-> 0, ev |-> 0]

\* task.done()
Done(lt, t) == lt[t].pc = "done"

\* `task and not task.done()` followed by task.cancel(): the task gets
\* CancelledError at its next step; a task waiting (sleep, service call) is
\* woken for it.
Cancel(lt, t) ==
    IF t # NoTask /\ ~Done(lt, t)
    THEN [lt EXCEPT ![t].cancel = TRUE]
    ELSE lt

CancelReady(lt, rdy, t) ==
    IF t # NoTask /\ ~Done(lt, t) /\ ~lt[t].cancel /\ lt[t].pc # "new"
    THEN Append(rdy, t)
    ELSE rdy

\* The latest press of a button in the history (0 when there is none).
LastPress(ps, button) ==
    LET S == {i \in 1..Len(ps) : ps[i].btn = button}
    IN  IF S = {} THEN 0 ELSE CHOOSE i \in S : \A j \in S : j <= i

\* History: a press supersedes the button's presses not yet released.
RecordPress(ps, button, t) ==
    Append([i \in 1..Len(ps) |->
               IF ps[i].btn = button /\ ps[i].rel = -1
               THEN [ps[i] EXCEPT !.sup = TRUE] ELSE ps[i]],
           [btn |-> button, at |-> t, rel |-> -1, sup |-> FALSE])

\* History: a release closes every press of the button not yet released.
RecordRelease(ps, button, t) ==
    [i \in 1..Len(ps) |->
        IF ps[i].btn = button /\ ps[i].rel = -1
        THEN [ps[i] EXCEPT !.rel = t] ELSE ps[i]]

\* ---------------------------------------------------------------- handlers
\* Each handler is one synchronous call: it sets the button's fields and
\* creates tasks; it leaves the clock, the sink and the entity alone.

\* CoverActions.press_raise / press_lower
Cover_press(b) ==
    LET pid == Len(presses) + 1
        n == Len(loop_tasks)
    IN  /\ pressed' = [pressed EXCEPT ![b] = TRUE]
        /\ press_ts' = [press_ts EXCEPT ![b] = now]
        /\ loop_tasks' = loop_tasks \o << NewTask("tap", b, pid), NewTask("hold", b, pid) >>
        /\ ready' = ready \o << n + 1, n + 2 >>
        /\ presses' = RecordPress(presses, b, now)
        /\ UNCHANGED << is_holding, tasks >>

\* release_raise / release_lower doing the position step as well, as a
\* deferred tap would
Cover_release_with_step(b) ==
    LET n == Len(loop_tasks)
        pid == IF pressed[b] THEN LastPress(presses, b) ELSE 0
    IN  /\ pressed' = [pressed EXCEPT ![b] = FALSE]
        /\ loop_tasks' = loop_tasks \o << NewTask("tap", b, pid), NewTask("stop", b, pid) >>
        /\ ready' = ready \o << n + 1, n + 2 >>
        /\ presses' = RecordRelease(presses, b, now)
        /\ UNCHANGED << press_ts, is_holding, tasks >>

\* CoverActions.release_raise / release_lower
Cover_release(b) ==
    LET n == Len(loop_tasks)
        pid == IF pressed[b] THEN LastPress(presses, b) ELSE 0
    IN  /\ pressed' = [pressed EXCEPT ![b] = FALSE]
        /\ loop_tasks' = Append(loop_tasks, NewTask("stop", b, pid))
        /\ ready' = Append(ready, n + 1)
        /\ presses' = RecordRelease(presses, b, now)
        /\ UNCHANGED << press_ts, is_holding, tasks >>

\* A handler method whose body is `pass` (release_on, release_stop, ...) or
\* that returns before it touches anything.
NoGesture ==
    UNCHANGED << pressed, press_ts, is_holding, tasks, loop_tasks, ready, presses >>

\* A handler method that only creates one task.
Spawn(kind, b) ==
    /\ loop_tasks' = Append(loop_tasks, NewTask(kind, b, 0))
    /\ ready' = Append(ready, Len(loop_tasks) + 1)
    /\ UNCHANGED << pressed, press_ts, is_holding, tasks, presses >>

\* `for action in actions: asyncio.create_task(...)`: one task per entry of
\* the list whose index is in idxs, created in the order of the list
SpawnEach(kind, b, idxs) ==
    /\ loop_tasks' = loop_tasks \o
           [i \in 1..Len(idxs) |->
               [NewTask(kind, b, 0) EXCEPT !.item = idxs[i], !.ev = events + 1]]
    /\ ready' = ready \o [i \in 1..Len(idxs) |-> Len(loop_tasks) + i]
    /\ UNCHANGED << pressed, press_ts, is_holding, tasks, presses >>

\* press_stop of CoverActions, FanActions and LightActions with
\* conf.middle_button not empty: execute_button_action(action) as a task of
\* its own for every entry
Run_middle_button ==
    SpawnEach("exec", "stop", [i \in 1..Len(conf.middle_button) |-> i])

\* Pico4ButtonScene.handle_press: a task for every entry of the button's
\* list that is a mapping
Scene_handle_press(b) ==
    LET acts == conf.buttons[b]
        isdict(i) == acts[i].shape \in {"dict", "nodot"}
    IN  SpawnEach("scene", b, SelectSeq([i \in 1..Len(acts) |-> i], isdict))

\* press_stop creating the default stop task after the configured ones
Cover_press_stop_both ==
    LET n == Len(conf.middle_button)
    IN  /\ loop_tasks' = (loop_tasks \o
               [i \in 1..n |-> [NewTask("exec", "stop", 0) EXCEPT !.item = i,
                                                                  !.ev = events + 1]])
               \o << NewTask("stop", "stop", 0) >>
        /\ ready' = ready \o [i \in 1..(n + 1) |-> Len(loop_tasks) + i]
        /\ UNCHANGED << pressed, press_ts, is_holding, tasks, presses >>

\* CoverActions.press_stop
Cover_press_stop ==
    IF conf.middle_button # << >> THEN Run_middle_button ELSE Spawn("stop", "stop")

\* FanActions.press_on / press_off
Fan_press_onoff(b) == Spawn("fan_power", b)

\* FanActions.press_stop
Fan_press_stop ==
    IF conf.middle_button # << >> THEN Run_middle_button ELSE Spawn("reverse", "stop")

\* LightActions.press_stop
Light_press_stop ==
    IF conf.middle_button # << >> THEN Run_middle_button ELSE NoGesture

\* press_on / press_off that opens or closes whatever the cover reports
Cover_press_onoff_blind(b) ==
    /\ loop_tasks' = Append(loop_tasks, NewTask(IF b = "on" THEN "open" ELSE "close", b, 0))
    /\ ready' = Append(ready, Len(loop_tasks) + 1)
    /\ UNCHANGED << pressed, press_ts, is_holding, tasks, presses >>

\* CoverActions.press_on / press_off: stop when the cover is moving, open
\* (on) or close (off) otherwise.  No gesture state is involved.
Cover_press_onoff(b) ==
    LET kind == IF moving THEN "stop" ELSE IF b = "on" THEN "open" ELSE "close"
    IN  /\ loop_tasks' = Append(loop_tasks, NewTask(kind, b, 0))
        /\ ready' = Append(ready, Len(loop_tasks) + 1)
        /\ UNCHANGED << pressed, press_ts, is_holding, tasks, presses >>

\* CoverActions.release_on / release_off: pass
Cover_release_onoff(b) ==
    UNCHANGED << pressed, press_ts, is_holding, tasks, loop_tasks, ready, presses >>

\* FanActions._begin_raise_lower
Fan_begin_raise_lower(b) ==
    LET pid == Len(presses) + 1
        n == Len(loop_tasks)
    IN  /\ pressed' = [pressed EXCEPT ![b] = TRUE]
        /\ press_ts' = [press_ts EXCEPT ![b] = now]
        /\ loop_tasks' = loop_tasks \o << NewTask("tap", b, pid), NewTask("hold", b, pid) >>
        /\ ready' = ready \o << n + 1, n + 2 >>
        /\ tasks' = [tasks EXCEPT ![b] = n + 2]
        /\ presses' = RecordPress(presses, b, now)
        /\ UNCHANGED is_holding

\* _end_raise_lower with the task.cancel() call left out
Fan_end_raise_lower_nocancel(b) ==
    /\ pressed' = [pressed EXCEPT ![b] = FALSE]
    /\ tasks' = [tasks EXCEPT ![b] = NoTask]
    /\ presses' = RecordRelease(presses, b, now)
    /\ UNCHANGED << press_ts, is_holding, loop_tasks, ready >>

\* FanActions._end_raise_lower
Fan_end_raise_lower(b) ==
    /\ pressed' = [pressed EXCEPT ![b] = FALSE]
    /\ loop_tasks' = Cancel(loop_tasks, tasks[b])
    /\ ready' = CancelReady(loop_tasks, ready, tasks[b])
    /\ tasks' = [tasks EXCEPT ![b] = NoTask]
    /\ presses' = RecordRelease(presses, b, now)
    /\ UNCHANGED << press_ts, is_holding >>

\* MediaPlayerActions.handle_press: case "on" / "off" creates the power
\* task, case "stop" is ignored, case "raise" | "lower" creates the tap and
\* the hold lifecycle
MP_handle_press(b) ==
    LET pid == Len(presses) + 1
        n == Len(loop_tasks)
    IN  CASE b \in {"on", "off"} -> Spawn("power", b)
          [] b \in {"raise", "lower"} ->
               /\ pressed' = [pressed EXCEPT ![b] = TRUE]
               /\ loop_tasks' = loop_tasks \o << NewTask("tap", b, pid), NewTask("hold", b, pid) >>
               /\ ready' = ready \o << n + 1, n + 2 >>
               /\ tasks' = [tasks EXCEPT ![b] = n + 2]
               /\ presses' = RecordPress(presses, b, now)
               /\ UNCHANGED << press_ts, is_holding >>
          [] OTHER -> NoGesture

\* MediaPlayerActions.handle_release: returns at once unless raise or lower
MP_handle_release(b) ==
    IF b \notin {"raise", "lower"}
    THEN UNCHANGED << pressed, press_ts, is_holding, tasks, loop_tasks, ready, presses >>
    ELSE /\ pressed' = [pressed EXCEPT ![b] = FALSE]
         /\ loop_tasks' = Cancel(loop_tasks, tasks[b])
         /\ ready' = CancelReady(loop_tasks, ready, tasks[b])
         /\ tasks' = [tasks EXCEPT ![b] = NoTask]
         /\ presses' = RecordRelease(presses, b, now)
         /\ UNCHANGED << press_ts, is_holding >>

\* LightActions._start_raise_lower
Light_start_raise_lower(b) ==
    LET pid == Len(presses) + 1
        n == Len(loop_tasks)
    IN  /\ pressed' = [pressed EXCEPT ![b] = TRUE]
        /\ is_holding' = [is_holding EXCEPT ![b] = FALSE]
        /\ press_ts' = [press_ts EXCEPT ![b] = now]
        /\ loop_tasks' = loop_tasks \o << NewTask("tap", b, pid), NewTask("hold", b, pid) >>
        /\ ready' = ready \o << n + 1, n + 2 >>
        /\ tasks' = [tasks EXCEPT ![b] = n + 2]
        /\ presses' = RecordPress(presses, b, now)

\* _stop_raise_lower over one pressed flag and one task slot shared by
\* raise and lower
Light_stop_raise_lower_shared(b) ==
    LET other == IF b = "raise" THEN "lower" ELSE "raise"
        lt1 == Cancel(loop_tasks, tasks[b])
        rd1 == CancelReady(loop_tasks, ready, tasks[b])
    IN  /\ pressed' = [pressed EXCEPT ![b] = FALSE, ![other] = FALSE]
        /\ loop_tasks' = Cancel(lt1, tasks[other])
        /\ ready' = CancelReady(lt1, rd1, tasks[other])
        /\ tasks' = [tasks EXCEPT ![b] = NoTask, ![other] = NoTask]
        /\ is_holding' = [is_holding EXCEPT ![b] = FALSE, ![other] = FALSE]
        /\ presses' = RecordRelease(presses, b, now)
        /\ UNCHANGED press_ts

\* LightActions._stop_raise_lower
\* the release that clears the pressed flag alone
Light_stop_raise_lower_flag_only(b) ==
    /\ pressed' = [pressed EXCEPT ![b] = FALSE]
    /\ loop_tasks' = Cancel(loop_tasks, tasks[b])
    /\ ready' = CancelReady(loop_tasks, ready, tasks[b])
    /\ presses' = RecordRelease(presses, b, now)
    /\ UNCHANGED << press_ts, tasks, is_holding >>

Light_stop_raise_lower(b) ==
    /\ pressed' = [pressed EXCEPT ![b] = FALSE]
    /\ loop_tasks' = Cancel(loop_tasks, tasks[b])
    /\ ready' = CancelReady(loop_tasks, ready, tasks[b])
    /\ tasks' = [tasks EXCEPT ![b] = NoTask]
    /\ is_holding' = [is_holding EXCEPT ![b] = FALSE]
    /\ presses' = RecordRelease(presses, b, now)
    /\ UNCHANGED press_ts

\* _supports_onoff_hold answering True under every profile
Light_supports_onoff_hold_always == TRUE

\* LightActions._supports_onoff_hold: ctrl.behavior_name as it is when the
\* handler runs, the event that binds the profile included
Light_supports_onoff_hold == behavior_name' = "P2B"

\* LightActions._start_onoff_hold
Light_start_onoff_hold(b) ==
    LET pid == Len(presses) + 1
        n == Len(loop_tasks)
    IN  /\ pressed' = [pressed EXCEPT ![b] = TRUE]
        /\ is_holding' = [is_holding EXCEPT ![b] = FALSE]
        /\ press_ts' = [press_ts EXCEPT ![b] = now]
        /\ loop_tasks' = Append(loop_tasks, NewTask("hold", b, pid))
        /\ ready' = Append(ready, n + 1)
        /\ tasks' = [tasks EXCEPT ![b] = n + 1]
        /\ presses' = RecordPress(presses, b, now)

\* LightActions._finalize_onoff_hold
Light_finalize_onoff_hold(b) ==
    LET n == Len(loop_tasks)
        pid == IF pressed[b] THEN LastPress(presses, b) ELSE 0
        cancelled == Cancel(loop_tasks, tasks[b])
        woken == CancelReady(loop_tasks, ready, tasks[b])
    IN  /\ pressed' = [pressed EXCEPT ![b] = FALSE]
        /\ IF ~is_holding[b]
           THEN /\ loop_tasks' = Append(cancelled, NewTask("onoff", b, pid))
                /\ ready' = Append(woken, n + 1)
           ELSE /\ loop_tasks' = cancelled
                /\ ready' = woken
        /\ tasks' = [tasks EXCEPT ![b] = NoTask]
        /\ is_holding' = [is_holding EXCEPT ![b] = FALSE]
        /\ presses' = RecordRelease(presses, b, now)
        /\ UNCHANGED press_ts

\* LightActions.press_on / press_off
Light_press_onoff(b) ==
    IF Light_supports_onoff_hold
    THEN Light_start_onoff_hold(b)
    ELSE /\ loop_tasks' = Append(loop_tasks, NewTask("onoff", b, 0))
         /\ ready' = Append(ready, Len(loop_tasks) + 1)
         /\ UNCHANGED << pressed, press_ts, is_holding, tasks, presses >>

\* LightActions.release_on / release_off
Light_release_onoff(b) ==
    IF Light_supports_onoff_hold
    THEN Light_finalize_onoff_hold(b)
    ELSE UNCHANGED << pressed, press_ts, is_holding, tasks, loop_tasks, ready, presses >>

\* press_<button> of the device's action module
PressHandler(b) ==
    CASE domain = "cover" /\ b \in {"raise", "lower"} -> Cover_press(b)
      [] domain = "cover" /\ b \in {"on", "off"} -> Cover_press_onoff(b)
      [] domain = "cover" /\ b = "stop" -> Cover_press_stop
      [] domain = "fan" /\ b \in {"raise", "lower"} -> Fan_begin_raise_lower(b)
      [] domain = "fan" /\ b \in {"on", "off"} -> Fan_press_onoff(b)
      [] domain = "fan" /\ b = "stop" -> Fan_press_stop
      [] domain = "light" /\ b = "stop" -> Light_press_stop
      [] domain = "media_player" -> MP_handle_press(b)
      [] domain = "light" /\ b \in {"raise", "lower"} -> Light_start_raise_lower(b)
      [] domain = "light" /\ b \in {"on", "off"} -> Light_press_onoff(b)

\* release_<button> of the device's action module
ReleaseHandler(b) ==
    CASE domain = "cover" /\ b \in {"raise", "lower"} -> Cover_release(b)
      [] domain = "cover" /\ b \in {"on", "off"} -> Cover_release_onoff(b)
      [] domain = "cover" /\ b = "stop" -> NoGesture
      [] domain = "fan" /\ b \in {"raise", "lower"} -> Fan_end_raise_lower(b)
      [] domain = "fan" /\ b \in {"on", "off", "stop"} -> NoGesture
      [] domain = "light" /\ b = "stop" -> NoGesture
      [] domain = "media_player" -> MP_handle_release(b)
      [] domain = "light" /\ b \in {"raise", "lower"} -> Light_stop_raise_lower(b)
      [] domain = "light" /\ b \in {"on", "off"} -> Light_release_onoff(b)

\* A press event arrives and is dispatched.  Event callbacks and tasks share
\* the loop: an event is handled before the loop starts on the tasks that
\* are ready, or after it has run them all.
Press(b) ==
    /\ events < budget
    /\ now <= MaxTime
    /\ ~running
    /\ b \in active
    /\ events' = events + 1
    /\ UNCHANGED << config, entity, now, sink, running, nsleep >>
    /\ PressHandler(b)

\* a release handled only once no service call is outstanding
Release_blocking(b) ==
    /\ events < budget
    /\ now <= MaxTime
    /\ ~running
    /\ b \in active
    /\ \A t \in 1..Len(loop_tasks) : loop_tasks[t].pc # "call"
    /\ events' = events + 1
    /\ UNCHANGED << config, entity, now, sink, running, nsleep >>
    /\ ReleaseHandler(b)

\* A release event arrives and is dispatched.
Release(b) ==
    /\ events < budget
    /\ now <= MaxTime
    /\ ~running
    /\ b \in active
    /\ events' = events + 1
    /\ UNCHANGED << config, entity, now, sink, running, nsleep >>
    /\ ReleaseHandler(b)

\* ------------------------------------------------------------- coroutines
\* History: has the press a task was spawned for been released?
Released(pid) == pid # 0 /\ presses[pid].rel # -1

\* The coroutine returns (or ends on CancelledError).
Finish(t) ==
    /\ loop_tasks' = [loop_tasks EXCEPT ![t].pc = "done"]
    /\ UNCHANGED << sink, entity, nsleep >>

\* await asyncio.sleep(d), the task table being lt: loop.call_later(d, ...)
Sleep(t, lt, pc, d) ==
    /\ loop_tasks' = [lt EXCEPT ![t].pc = pc, ![t].wake = now + d,
                               ![t].seq = nsleep + 1]
    /\ nsleep' = nsleep + 1
    /\ UNCHANGED << sink, entity >>

\* The command as the sink receives it.
Sent(t, lt, cmd) ==
    [op |-> cmd.op, arg |-> cmd.arg, task |-> t, at |-> now,
     stale |-> Released(lt[t].pid), ok |-> TRUE]

\* await self.ctrl.utils.call_service(...) inside a ramp loop: the command
\* is handed to hass.services.async_call and the task waits for the call to
\* return; events may be handled meanwhile.
Call(t, lt, cmd) ==
    /\ loop_tasks' = [lt EXCEPT ![t].pc = "call"]
    /\ sink' = Append(sink, Sent(t, lt, cmd))
    /\ entity' = Report(domain, entity, cmd)
    /\ UNCHANGED nsleep

\* await self.ctrl.utils.call_service(...) as the last statement of a task
\* nothing refers to: the command is handed over and the task ends when the
\* call returns, which nothing observes.
CallAndReturn(t, lt, cmd) ==
    /\ loop_tasks' = [lt EXCEPT ![t].pc = "done"]
    /\ sink' = Append(sink, Sent(t, lt, cmd))
    /\ entity' = Report(domain, entity, cmd)
    /\ UNCHANGED nsleep

\* SharedUtils.call_service: hass.services.async_call is handed the command
\* and either takes it (ok) or raises; the task goes on to pc when the call
\* is over.  A command the sink refused does not reach the device.
CallService(t, lt, cmd, ok, pc) ==
    /\ loop_tasks' = [lt EXCEPT ![t].pc = pc]
    /\ sink' = Append(sink, [Sent(t, lt, cmd) EXCEPT !.ok = ok])
    /\ entity' = IF ok THEN Report(domain, entity, cmd) ELSE entity
    /\ UNCHANGED nsleep

\* call_service letting the sink's exception out unless continue_on_error
CallServiceReturns_unless_error(ok, continue_on_error) == ok \/ continue_on_error

\* Does call_service return normally to the coroutine awaiting it?  Its
\* `except Exception` logs (debug or error) and falls through either way.
CallServiceReturns(ok, continue_on_error) == TRUE

\* History: the hold lifecycle found the button pressed after hold_time.
EnterHold(lt, t) ==
    [lt EXCEPT ![t].entered = now,
               ![t].since = now - presses[LastPress(presses, lt[t].btn)].at,
               ![t].stale = Released(lt[t].pid)]

\* the loop's sleep with hold_time in the place of step_time
RampSleep_hold_time(t, lt) == Sleep(t, lt, "sleep_step", hold_time)

\* await asyncio.sleep(step_time), the second statement of a ramp loop's body
RampSleep(t, lt) == Sleep(t, lt, "sleep_step", step_time)

\* The first statement of a ramp loop's body: the step.  A step that sends
\* nothing returns without waiting and the sleep starts at once.
RampIteration(t, lt) ==
    LET cmd == StepCmd(domain, entity, lt[t].btn)
        counted == [lt EXCEPT ![t].iters = @ + 1, ![t].last = now]
    IN  IF cmd = NoCmd
        THEN RampSleep(t, counted)
        ELSE Call(t, counted, cmd)

\* The tap task: _step / _step_discrete / _step_brightness / _step_volume
Tap_step(t) ==
    LET cmd == StepCmd(domain, entity, loop_tasks[t].btn)
        seen == [loop_tasks EXCEPT ![t].saw = entity]
    IN  /\ IF cmd # NoCmd
           THEN CallAndReturn(t, seen, cmd)
           ELSE /\ loop_tasks' = [seen EXCEPT ![t].pc = "done"]
                /\ UNCHANGED << sink, entity, nsleep >>
        /\ UNCHANGED is_holding

\* CoverActions._stop as a task
Cover_stop_task(t) ==
    /\ CallAndReturn(t, loop_tasks, Cover_stop)
    /\ UNCHANGED is_holding

\* LightActions._turn_on / _turn_off as a task
Light_onoff_task(t) ==
    /\ CallAndReturn(t, loop_tasks,
                     IF loop_tasks[t].btn = "on" THEN Light_turn_on ELSE Light_turn_off)
    /\ UNCHANGED is_holding

\* CoverActions._open_to_position / _close_full as a task
Cover_onoff_task(t) ==
    /\ CallAndReturn(t, loop_tasks,
                     IF loop_tasks[t].kind = "open"
                     THEN Cover_open_to_position(cover_open_pos)
                     ELSE Cover_close_full)
    /\ UNCHANGED is_holding

\* FanActions._turn_on / _turn_off as a task
Fan_power_task(t) ==
    /\ CallAndReturn(t, loop_tasks,
                     IF loop_tasks[t].btn = "on"
                     THEN Cmd("set_percentage", conf.fan_on_pct)
                     ELSE Cmd("turn_off", 0))
    /\ UNCHANGED is_holding

\* FanActions._reverse_direction as a task: nothing without a state, or
\* when the fan's direction attribute is neither forward nor reverse.
Fan_reverse_task(t) ==
    /\ IF entity = NoState \/ direction \notin {"forward", "reverse"}
       THEN Finish(t)
       ELSE CallAndReturn(t, loop_tasks,
                          Cmd("set_direction",
                              IF direction = "forward" THEN "reverse" ELSE "forward"))
    /\ UNCHANGED is_holding

\* The latest command task t handed to the sink.
LastSent(t) ==
    LET S == {i \in 1..Len(sink) : sink[i].task = t}
    IN  sink[CHOOSE i \in S : \A j \in S : j <= i]

\* execute_button_action returning as soon as the sink has refused a command
execute_button_action_abort(t, leaves) ==
    LET k == loop_tasks[t].iters
        cmds == {j \in (k + 1)..Len(leaves) : leaves[j].shape = "dict"}
        j == CHOOSE i \in cmds : \A h \in cmds : i <= h
        refused == loop_tasks[t].pc = "call" /\ ~LastSent(t).ok
    IN  IF cmds = {} \/ refused
        THEN /\ loop_tasks' = [loop_tasks EXCEPT ![t].pc = "done",
                                                 ![t].iters = IF refused THEN k ELSE Len(leaves)]
             /\ UNCHANGED << sink, entity, nsleep >>
        ELSE \E ok \in BOOLEAN :
                 CallService(t, [loop_tasks EXCEPT ![t].iters = j],
                             Cmd(leaves[j].svc, 0), ok,
                             IF j = Len(leaves) THEN "done" ELSE "call")

\* SharedUtils.execute_button_action run by task t up to its next await,
\* leaves being the entries it goes through and iters how many of them it
\* has dealt with: the entries that are no command are logged and skipped,
\* the next command is handed to hass.services.async_call, which takes it
\* or raises (logged); after the last entry the coroutine returns.
execute_button_action(t, leaves) ==
    LET k == loop_tasks[t].iters
        cmds == {j \in (k + 1)..Len(leaves) : leaves[j].shape = "dict"}
        j == CHOOSE i \in cmds : \A h \in cmds : i <= h
    IN  IF cmds = {}
        THEN /\ loop_tasks' = [loop_tasks EXCEPT ![t].pc = "done", ![t].iters = Len(leaves)]
             /\ UNCHANGED << sink, entity, nsleep >>
        ELSE \E ok \in BOOLEAN :
                 CallService(t, [loop_tasks EXCEPT ![t].iters = j],
                             Cmd(leaves[j].svc, 0), ok,
                             IF j = Len(leaves) THEN "done" ELSE "call")

\* execute_button_action(action) as the task press_stop created for entry
\* `item` of conf.middle_button
Exec_task(t) ==
    /\ execute_button_action(t, Leaves(conf.middle_button[loop_tasks[t].item]))
    /\ UNCHANGED is_holding

\* Pico4ButtonScene._execute_scene_action as a task: entry `item` of the
\* button's list, handed to execute_button_action
Scene_task(t) ==
    /\ execute_button_action(t, Leaves(conf.buttons[loop_tasks[t].btn][loop_tasks[t].item]))
    /\ UNCHANGED is_holding

\* MediaPlayerActions._turn_on / _turn_off as a task: two awaited calls, the
\* second with continue_on_error=True
MP_power_task(t) ==
    LET b == loop_tasks[t].btn
    IN  /\ CASE loop_tasks[t].pc = "new" ->
                  \E ok \in BOOLEAN : CallService(t, loop_tasks, MP_power(b), ok, "call")
             [] loop_tasks[t].pc = "call" ->
                  IF CallServiceReturns(LastSent(t).ok, FALSE)
                  THEN \E ok \in BOOLEAN : CallService(t, loop_tasks, MP_mute(b), ok, "done")
                  ELSE Finish(t)
        /\ UNCHANGED is_holding

\* CoverActions._hold_lifecycle
Cover_hold_lifecycle(t) ==
    LET b == loop_tasks[t].btn
    IN  /\ CASE loop_tasks[t].pc = "new" ->
                  Sleep(t, loop_tasks, "sleep_hold", hold_time)
             [] loop_tasks[t].pc = "sleep_hold" ->
                  IF ~pressed[b]
                  THEN Finish(t)
                  ELSE CallAndReturn(t, EnterHold(loop_tasks, t), Cover_start_motion(b))
        /\ UNCHANGED is_holding

\* a ramp loop written `while True:`
StillPressed_always(b) == TRUE

\* The condition of a ramp loop, `while self._pressed.get(button):`, as it
\* is tested when the loop comes round after its sleep.
StillPressed(b) == pressed[b]

\* FanActions._hold_lifecycle
Fan_hold_lifecycle(t) ==
    LET b == loop_tasks[t].btn
    IN  /\ CASE loop_tasks[t].pc = "new" ->
                  Sleep(t, loop_tasks, "sleep_hold", hold_time)
             [] loop_tasks[t].pc = "sleep_hold" ->
                  IF ~pressed[b]
                  THEN Finish(t)
                  ELSE RampIteration(t, EnterHold(loop_tasks, t))
             [] loop_tasks[t].pc = "call" ->
                  RampSleep(t, loop_tasks)
             [] loop_tasks[t].pc = "sleep_step" ->
                  IF ~StillPressed(b)
                  THEN Finish(t)
                  ELSE RampIteration(t, loop_tasks)
        /\ UNCHANGED is_holding

\* MediaPlayerActions._hold_lifecycle
MP_hold_lifecycle(t) ==
    LET b == loop_tasks[t].btn
    IN  /\ CASE loop_tasks[t].pc = "new" ->
                  Sleep(t, loop_tasks, "sleep_hold", hold_time)
             [] loop_tasks[t].pc = "sleep_hold" ->
                  IF ~pressed[b]
                  THEN Finish(t)
                  ELSE RampIteration(t, EnterHold(loop_tasks, t))
             [] loop_tasks[t].pc = "call" ->
                  RampSleep(t, loop_tasks)
             [] loop_tasks[t].pc = "sleep_step" ->
                  IF ~StillPressed(b)
                  THEN Finish(t)
                  ELSE RampIteration(t, loop_tasks)
        /\ UNCHANGED is_holding

\* LightActions._hold_lifecycle_rl with _ramp_rl, and
\* LightActions._onoff_hold_lifecycle with _ramp_onoff (same shape, the
\* button tells the dictionaries apart)
Light_hold_lifecycle(t) ==
    LET b == loop_tasks[t].btn
    IN  CASE loop_tasks[t].pc = "new" ->
               /\ Sleep(t, loop_tasks, "sleep_hold", hold_time)
               /\ UNCHANGED is_holding
          [] loop_tasks[t].pc = "sleep_hold" ->
               IF ~pressed[b]
               THEN Finish(t) /\ UNCHANGED is_holding
               ELSE /\ is_holding' = [is_holding EXCEPT ![b] = TRUE]
                    /\ RampIteration(t, EnterHold(loop_tasks, t))
          [] loop_tasks[t].pc = "call" ->
               /\ RampSleep(t, loop_tasks)
               /\ UNCHANGED is_holding
          [] loop_tasks[t].pc = "sleep_step" ->
               /\ IF ~StillPressed(b)
                  THEN Finish(t)
                  ELSE RampIteration(t, loop_tasks)
               /\ UNCHANGED is_holding

\* The loop runs task t up to its next await.  A cancelled task gets
\* CancelledError there: the lifecycles catch it and return, a task that had
\* not started never runs its body.
Resume(t) ==
    IF loop_tasks[t].cancel
    THEN Finish(t) /\ UNCHANGED is_holding
    ELSE CASE loop_tasks[t].kind = "tap" -> Tap_step(t)
           [] loop_tasks[t].kind = "stop" -> Cover_stop_task(t)
           [] loop_tasks[t].kind = "onoff" -> Light_onoff_task(t)
           [] loop_tasks[t].kind \in {"open", "close"} -> Cover_onoff_task(t)
           [] loop_tasks[t].kind = "power" -> MP_power_task(t)
           [] loop_tasks[t].kind = "fan_power" -> Fan_power_task(t)
           [] loop_tasks[t].kind = "reverse" -> Fan_reverse_task(t)
           [] loop_tasks[t].kind = "scene" -> Scene_task(t)
           [] loop_tasks[t].kind = "exec" -> Exec_task(t)
           [] loop_tasks[t].kind = "hold" /\ domain = "cover" -> Cover_hold_lifecycle(t)
           [] loop_tasks[t].kind = "hold" /\ domain = "fan" -> Fan_hold_lifecycle(t)
           [] loop_tasks[t].kind = "hold" /\ domain = "media_player" -> MP_hold_lifecycle(t)
           [] loop_tasks[t].kind = "hold" /\ domain = "light" -> Light_hold_lifecycle(t)

\* ------------------------------------------------------------- event loop
Sleeping(t) == loop_tasks[t].pc \in {"sleep_hold", "sleep_step"} /\ ~loop_tasks[t].cancel
InCall(t) == loop_tasks[t].pc = "call" /\ ~loop_tasks[t].cancel
Expired(t) == Sleeping(t) /\ loop_tasks[t].wake <= now
TaskIds == 1..Len(loop_tasks)

\* The loop runs the head of its ready queue: a task just created, or one
\* woken by cancel().
RunReady ==
    /\ ready # << >>
    /\ ready' = Tail(ready)
    /\ running' = (Tail(ready) # << >>)
    /\ Resume(Head(ready))
    /\ UNCHANGED << config, now, events, pressed, press_ts, tasks, presses >>

\* hass.services.async_call(blocking=False) returns to the awaiting task.
SinkReturn(t) ==
    /\ ready = << >>
    /\ InCall(t)
    /\ Resume(t)
    /\ UNCHANGED << config, now, events, pressed, press_ts, tasks, presses,
                    ready, running >>

\* A sleep ends: the expired timer of the earliest deadline first, and of
\* equal deadlines the one scheduled first.
TimerWake(t) ==
    /\ ready = << >>
    /\ \A u \in TaskIds : ~InCall(u)
    /\ Expired(t)
    /\ \A u \in TaskIds :
          Expired(u) =>
             \/ loop_tasks[t].wake < loop_tasks[u].wake
             \/ /\ loop_tasks[t].wake = loop_tasks[u].wake
                /\ loop_tasks[t].seq <= loop_tasks[u].seq
    /\ Resume(t)
    /\ UNCHANGED << config, now, events, pressed, press_ts, tasks, presses,
                    ready, running >>

\* Time passes when the loop has nothing to run.  Elapsed time matters only
\* to a pending timer and to a button that is down, so the clock is
\* advanced only while there is one.
Tick ==
    /\ now < Horizon
    /\ ready = << >>
    /\ \A u \in TaskIds : ~InCall(u) /\ ~Expired(u)
    /\ \/ \E u \in TaskIds : Sleeping(u)
       \/ \E b \in Buttons : pressed[b]
    /\ now' = now + 1
    /\ UNCHANGED << config, entity, events, pressed, press_ts, is_holding,
                    tasks, loop_tasks, ready, running, nsleep, sink, presses >>

Next ==
    \/ \E b \in Buttons : Press(b)
    \/ \E b \in Buttons : Release(b)
    \/ RunReady
    \/ \E t \in TaskIds : SinkReturn(t)
    \/ \E t \in TaskIds : TimerWake(t)
    \/ Tick

Spec == Init /\ [][Next]_vars

\* The event loop runs whatever is ready, a service call returns, a due
\* timer fires and time passes: none of them is put off for ever.
LiveSpec ==
    /\ Spec
    /\ WF_vars(RunReady)
    /\ WF_vars(\E t \in TaskIds : SinkReturn(t))
    /\ WF_vars(\E t \in TaskIds : TimerWake(t))
    /\ WF_vars(Tick)

\* A fan or a light whose remote has both raise and lower driven.
PairInit ==
    /\ domain \in {"fan", "light"}
    /\ behavior_name = "3BRL"
    /\ active = {"raise", "lower"}
    /\ budget = MaxEventsRamp
    /\ cover_open_pos = 100
    /\ speeds = fan_speeds
    /\ conf = DefaultConf
    /\ direction = "none"
    /\ moving = FALSE
    /\ entity \in InitEntity(domain)
    /\ Quiescent

PairSpec == PairInit /\ [][Next]_vars

\* The positions conf.cover_open_pos is given in the runs: fully open, or not.
OpenPositions == {100, 75}

\* The on and off buttons of a cover or a media player, at the handler's
\* entry points.  Their tasks never sleep, so no timer is involved.
PowerInit ==
    /\ domain \in {"cover", "media_player"}
    /\ behavior_name = "3BRL"
    /\ active \in (SUBSET {"on", "off"}) \ {{}}
    /\ budget = Budget
    /\ cover_open_pos \in (IF domain = "cover" THEN OpenPositions ELSE {100})
    /\ speeds = fan_speeds
    /\ conf = DefaultConf
    /\ direction = "none"
    /\ moving \in (IF domain = "cover" THEN BOOLEAN ELSE {FALSE})
    /\ entity \in InitEntity(domain)
    /\ Quiescent

\* The State Source reports that the cover has started or stopped moving.
CoverReports ==
    /\ domain = "cover"
    /\ ~running
    /\ moving' = ~moving
    /\ UNCHANGED << domain, behavior_name, active, budget, cover_open_pos, speeds,
                    conf, direction, subscribed, log, entity, now, events, pressed, press_ts, is_holding, tasks, loop_tasks,
                    ready, running, nsleep, sink, presses >>

PowerNext ==
    \/ \E b \in Buttons : Press(b)
    \/ \E b \in Buttons : Release(b)
    \/ RunReady
    \/ \E t \in TaskIds : SinkReturn(t)
    \/ CoverReports

PowerSpec == PowerInit /\ [][PowerNext]_vars

\* A fan of 2..MaxSpeeds speeds reporting any percentage, or no state.
FanInit ==
    /\ domain = "fan"
    /\ behavior_name = "3BRL"
    /\ active = {"raise", "lower"}
    /\ budget = MaxSteps
    /\ cover_open_pos = 100
    /\ speeds \in 2..MaxSpeeds
    /\ conf = DefaultConf
    /\ direction = "none"
    /\ moving = FALSE
    /\ entity \in {NoState} \cup 0..100
    /\ Quiescent

\* One run of a single step (FanActions._step_discrete, CoverActions._step,
\* LightActions._step_brightness) from its first statement to the command
\* it hands to the sink (it has no await before that).
FanTap(b) ==
    LET t == Len(loop_tasks) + 1
        lt == Append(loop_tasks,
                     [NewTask("tap", b, 0) EXCEPT !.pc = "done", !.saw = entity])
        cmd == StepCmd(domain, entity, b)
    IN  /\ events < budget
        /\ b \in active
        /\ events' = events + 1
        /\ loop_tasks' = lt
        /\ IF cmd = NoCmd
           THEN UNCHANGED << sink, entity >>
           ELSE /\ sink' = Append(sink, Sent(t, lt, cmd))
                /\ entity' = Report(domain, entity, cmd)
        /\ UNCHANGED << config, now, pressed, press_ts, is_holding, tasks, ready,
                        running, nsleep, presses >>

FanNext == \E b \in Buttons : FanTap(b)

FanSpec == FanInit /\ [][FanNext]_vars

\* ctrl.conf in the runs of the single steps of category d: the values of
\* conf.cover_step_pct, of conf.light_step_pct and conf.light_low_pct, and
\* of conf.fan_on_pct.
StepConfs(d) ==
    CASE d = "cover" ->
           {[DefaultConf EXCEPT !.cover_step_pct = st] : st \in {1, 25, 50, 100}}
      [] d = "light" ->
           {[DefaultConf EXCEPT !.light_step_pct = st, !.light_low_pct = lo] :
               st \in {1, 10, 40, 100}, lo \in {1, 5, 50, 100}}
      [] d = "fan" ->
           {[DefaultConf EXCEPT !.fan_on_pct = on] : on \in {50, 100}}
      [] d = "media_player" ->
           {[DefaultConf EXCEPT !.media_player_vol_step = st] : st \in {1, 3, 10}}

\* conf.fan_speeds in those runs
StepSpeeds == {3, 4, 6}

\* A volume level the State Source reports above 1.0, in percent
VolumeOutOfRange == 150

\* A cover, a light, a fan or a media player about to be stepped: any of
\* the configurations above, any position, brightness (0..255), percentage
\* or volume reported, a state without the attribute, or no state.
StepInit ==
    /\ domain \in {"cover", "light", "fan", "media_player"}
    /\ behavior_name = "3BRL"
    /\ active = {"raise", "lower"}
    /\ budget = MaxSteps
    /\ cover_open_pos = 100
    /\ speeds \in (IF domain = "fan" THEN StepSpeeds ELSE {fan_speeds})
    /\ conf \in StepConfs(domain)
    /\ direction = "none"
    /\ moving = FALSE
    /\ entity \in
         CASE domain = "cover" -> {NoState, StateOther} \cup 0..100
           [] domain = "light" -> {NoState, StateOff} \cup 0..255
           [] domain = "fan" -> {NoState, StateOff, StateOther} \cup 0..100
           [] domain = "media_player" ->
                {NoState, StateOther, VolumeOutOfRange} \cup 0..100
    /\ Quiescent

StepSpec == StepInit /\ [][FanNext]_vars

\* The lists conf.middle_button is given in the runs of the Stop button:
\* none, two commands, a list with an entry that is no mapping, one whose
\* first entry has an action string that does not split, and one whose first
\* entry is itself a list.
MiddleButtons ==
    { << >>,
      << Item("a"), Item("b") >>,
      << Item("a"), Malformed("nodict"), Item("b") >>,
      << Malformed("nodot"), Item("a") >>,
      << ItemList(<< Item("a"), Malformed("nodict"), Item("b") >>), Item("c") >> }

\* conf.buttons in the runs of a scene remote: well-formed and malformed
\* entries mixed, a list among them
SceneLists ==
    [on |-> << Item("a"), Malformed("nodict"), Malformed("nodot"), Item("b") >>,
     off |-> << ItemList(<< Item("c") >>), Item("b"), Item("a") >>]

\* A cover, fan or light under 3BRL with Stop and Raise driven, or a scene
\* remote (4B, no category).
StopInit ==
    /\ \/ /\ domain \in {"cover", "fan", "light"}
          /\ behavior_name = "3BRL"
          /\ active = {"stop", "raise"}
          /\ conf \in {[DefaultConf EXCEPT !.middle_button = mb] : mb \in MiddleButtons}
       \/ /\ domain = "none"
          /\ behavior_name = "4B"
          /\ active = {}
          /\ conf = [DefaultConf EXCEPT !.buttons = SceneLists]
    /\ budget = MaxEventsPair
    /\ cover_open_pos = 100
    /\ speeds = fan_speeds
    /\ direction \in (IF domain = "fan" THEN {"forward", "reverse", "none"} ELSE {"none"})
    /\ moving = FALSE
    /\ entity \in InitEntity(domain)
    /\ Quiescent

\* A press event of a scene remote, dispatched to Pico4ButtonScene.handle_press
ScenePress(b) ==
    /\ behavior_name = "4B"
    /\ events < budget
    /\ now <= MaxTime
    /\ ~running
    /\ events' = events + 1
    /\ UNCHANGED << config, entity, now, sink, running, nsleep >>
    /\ Scene_handle_press(b)

\* The State Source reports the direction the fan was last set to.
FanReports ==
    LET S == {i \in 1..Len(sink) : sink[i].op = "set_direction" /\ sink[i].ok}
        last == CHOOSE i \in S : \A j \in S : j <= i
    IN  /\ domain = "fan"
        /\ ~running
        /\ S # {}
        /\ direction # sink[last].arg
        /\ direction' = sink[last].arg
        /\ UNCHANGED << domain, behavior_name, active, budget, cover_open_pos, speeds,
                        conf, moving, subscribed, log, entity, now, events, pressed,
                        press_ts, is_holding, tasks, loop_tasks, ready, running,
                        nsleep, sink, presses >>

StopNext ==
    \/ \E b \in Buttons \cup {"stop"} : Press(b)
    \/ \E b \in Buttons \cup {"stop"} : Release(b)
    \/ \E b \in SceneButtons : ScenePress(b)
    \/ RunReady
    \/ \E t \in TaskIds : SinkReturn(t)
    \/ \E t \in TaskIds : TimerWake(t)
    \/ Tick
    \/ FanReports

StopSpec == StopInit /\ [][StopNext]_vars

\* ---------------------------------------- a light stepped, any low bound
\* conf.light_low_pct in those runs, 0 among them
LowBounds == {0, 1, 5, 50, 100}

\* A light about to be stepped: any brightness (0..255) reported, a state
\* without brightness, or no state; steps as in StepConfs.
LowInit ==
    /\ domain = "light"
    /\ behavior_name = "3BRL"
    /\ active = {"raise", "lower"}
    /\ budget = MaxSteps
    /\ cover_open_pos = 100
    /\ speeds = fan_speeds
    /\ conf \in {[DefaultConf EXCEPT !.light_step_pct = st, !.light_low_pct = lo] :
                    st \in {1, 10, 40, 100}, lo \in LowBounds}
    /\ direction = "none"
    /\ moving = FALSE
    /\ entity \in {NoState, StateOff} \cup 0..255
    /\ Quiescent

LowSpec == LowInit /\ [][FanNext]_vars

\* ------------------------------------------------- a light being lowered
\* Raw brightness values (0..255) a light reports at the start: 1, 5, 50,
\* 78 and 100 percent.
RampStarts == {3, 13, 128, 200, 255}

\* A light behind a 3BRL remote whose Lower button alone is driven, any
\* step and low bound of StepConfs, reporting a brightness that is not
\* below the low bound.
RampInit ==
    /\ domain = "light"
    /\ behavior_name = "3BRL"
    /\ active = {"lower"}
    /\ budget = MaxEventsPair
    /\ cover_open_pos = 100
    /\ speeds = fan_speeds
    /\ conf \in StepConfs("light")
    /\ direction = "none"
    /\ moving = FALSE
    /\ entity \in {raw \in RampStarts : Round(raw * 100, 255) >= conf.light_low_pct}
    /\ Quiescent

RampSpec == RampInit /\ [][Next]_vars

\* ------------------------------------- a Command Sink that does not return
\* hass.services.async_call never returns to a task awaiting it inside a
\* ramp loop: there is no SinkReturn step, and timers and time go on.
\* A remote with both buttons of a ramp driven: fan, media player, light
\* raise/lower, and the on/off hold of a light behind a paddle remote.
StallInit ==
    /\ \E c \in Configs \ {<< "cover", "3BRL" >>} :
           domain = c[1] /\ behavior_name = c[2]
    /\ active = DeviceButtons(domain, behavior_name)
    /\ budget = MaxEventsRamp
    /\ cover_open_pos = 100
    /\ speeds = fan_speeds
    /\ conf = DefaultConf
    /\ direction = "none"
    /\ moving = FALSE
    /\ entity \in InitEntity(domain)
    /\ Quiescent

\* A timer fires whether or not a service call is outstanding.
StallTimerWake(t) ==
    /\ ready = << >>
    /\ Expired(t)
    /\ \A u \in TaskIds :
          Expired(u) =>
             \/ loop_tasks[t].wake < loop_tasks[u].wake
             \/ /\ loop_tasks[t].wake = loop_tasks[u].wake
                /\ loop_tasks[t].seq <= loop_tasks[u].seq
    /\ Resume(t)
    /\ UNCHANGED << config, now, events, pressed, press_ts, tasks, presses,
                    ready, running >>

\* Time passes whether or not a service call is outstanding: a call that
\* has not returned may take any time, or never return.
StallTick ==
    /\ now < Horizon
    /\ ready = << >>
    /\ \A u \in TaskIds : ~Expired(u)
    /\ \/ \E u \in TaskIds : Sleeping(u) \/ InCall(u)
       \/ \E b \in Buttons : pressed[b]
    /\ now' = now + 1
    /\ UNCHANGED << config, entity, events, pressed, press_ts, is_holding,
                    tasks, loop_tasks, ready, running, nsleep, sink, presses >>

StallNext ==
    \/ \E b \in Buttons : Press(b)
    \/ \E b \in Buttons : Release(b)
    \/ RunReady
    \/ \E t \in TaskIds : StallTimerWake(t)
    \/ StallTick

StallSpec == StallInit /\ [][StallNext]_vars

\* ------------------------------------------------------ entity resolution
\* The entity lists of ctrl.conf, in the order entity_domain() and
\* primary_entity() test them, each with the category it stands for.
EntityLists == << "covers", "lights", "fans", "media_players", "switches" >>
EntityCategory == << "cover", "light", "fan", "media_player", "switch" >>

\* An entity id is a category and a number ("cover.1"); None is NoEntity.
MaxList == 2
EntityNumbers == {1, 2}
NoEntity == << "none", 0 >>

\* The lists a category can be given: up to MaxList of its ids, in any order
ListsOf(cat) ==
    {l \in UNION {[1..n -> {<< cat, i >> : i \in EntityNumbers}] : n \in 0..MaxList} :
        \A i, j \in DOMAIN l : i # j => l[i] # l[j]}

\* lights tested before covers
primary_entity_lights_first(c) ==
    IF c.lights # << >> THEN c.lights[1]
    ELSE IF c.covers # << >> THEN c.covers[1]
    ELSE IF c.fans # << >> THEN c.fans[1]
    ELSE IF c.media_players # << >> THEN c.media_players[1]
    ELSE IF c.switches # << >> THEN c.switches[1]
    ELSE NoEntity

entity_domain(c) ==
    IF c.covers # << >> THEN "cover"
    ELSE IF c.lights # << >> THEN "light"
    ELSE IF c.fans # << >> THEN "fan"
    ELSE IF c.media_players # << >> THEN "media_player"
    ELSE IF c.switches # << >> THEN "switch"
    ELSE "none"

primary_entity(c) ==
    IF c.covers # << >> THEN c.covers[1]
    ELSE IF c.lights # << >> THEN c.lights[1]
    ELSE IF c.fans # << >> THEN c.fans[1]
    ELSE IF c.media_players # << >> THEN c.media_players[1]
    ELSE IF c.switches # << >> THEN c.switches[1]
    ELSE NoEntity

\* hass.states.get(entity_id): the state of a registered entity, or None.
\* The entities numbered 1 are registered, and off.
hass_states_get(entity_id) ==
    IF entity_id[2] = 1 THEN StateOff ELSE NoState

get_entity_state(c) ==
    LET entity_id == primary_entity(c)
    IN  IF entity_id = NoEntity THEN NoState ELSE hass_states_get(entity_id)

\* The `entities` call_service puts in a command of the domain it is given
call_service_entities(c, d) ==
    CASE d = "cover" -> c.covers
      [] d = "light" -> c.lights
      [] d = "fan" -> c.fans
      [] d = "media_player" -> c.media_players
      [] d = "switch" -> c.switches
      [] OTHER -> << >>

\* Any configuration of the five lists, nothing resolved yet.
EntInit ==
    /\ domain = "none"
    /\ behavior_name = "none"
    /\ active = {}
    /\ budget = 0
    /\ cover_open_pos = 100
    /\ speeds = fan_speeds
    /\ \E co \in ListsOf("cover"), li \in ListsOf("light"), fa \in ListsOf("fan"),
          mp \in ListsOf("media_player"), sw \in ListsOf("switch") :
           conf = [covers |-> co, lights |-> li, fans |-> fa,
                   media_players |-> mp, switches |-> sw] @@ DefaultConf
    /\ direction = "none"
    /\ moving = FALSE
    /\ entity = NoState
    /\ Quiescent

\* A handler resolves its device: the category, the primary entity, the
\* state it reads, and the entities a command of that category is sent to.
EntResolve ==
    /\ log = << >>
    /\ domain' = entity_domain(conf)
    /\ entity' = get_entity_state(conf)
    /\ log' = << [primary |-> primary_entity(conf),
                  targets |-> call_service_entities(conf, entity_domain(conf))] >>
    /\ UNCHANGED << behavior_name, active, budget, cover_open_pos, speeds, conf,
                    direction, moving, subscribed, now, events, pressed, press_ts,
                    is_holding, tasks, loop_tasks, ready, running, nsleep, sink,
                    presses >>

EntNext == EntResolve

EntSpec == EntInit /\ [][EntNext]_vars

\* ------------------------------------------------- controller and profiles
\* const.SUPPORTED_BUTTONS: the closed set of logical buttons
SUPPORTED_BUTTONS == {"on", "off", "stop", "raise", "lower"}

\* The keys of controller.BEHAVIOR_CLASSES
BEHAVIOR_CLASSES == {"P2B", "2B", "3BRL", "4B"}

\* utils.entity_domain(): the first entity list configured, "none" for None
Categories == Domains \cup {"switch", "none"}

\* An event field that is not a str: a number, or a key that is missing.
NotAString == {"<int>", "<none>"}

\* str.lower() on the spellings the events use
Lower(x) ==
    CASE x = "Raise" -> "raise"
      [] x = "Press" -> "press"
      [] OTHER -> x

\* const.PICO_TYPE_MAP.get(raw_type): hardware type to profile name.  A
\* hardware type is known by the name the map gives it; "5B" is a name
\* BEHAVIOR_CLASSES has no class for, "<none>" stands for None.
PICO_TYPE_MAP(raw_type) ==
    CASE raw_type = "hw_P2B" -> "P2B"
      [] raw_type = "hw_2B" -> "2B"
      [] raw_type = "hw_3BRL" -> "3BRL"
      [] raw_type = "hw_4B" -> "4B"
      [] raw_type = "hw_5B" -> "5B"
      [] OTHER -> "<none>"

RawTypes == {"hw_P2B", "hw_2B", "hw_3BRL", "hw_4B", "hw_5B", "hw_unknown", "<none>"}

\* event.data of the events on the bus: the well-formed ones of this
\* device, and ones of another device, in other spellings, with a button
\* outside the supported set, a phase that is no phase, a field that is no
\* string.
Events ==
    [device_id : {"this"}, button_type : SUPPORTED_BUTTONS,
     action : {"press", "release"}, type : RawTypes]
    \cup
    [device_id : {"this", "other"}, button_type : {"on", "Raise", "favorite", "<int>"},
     action : {"press", "Press", "hold", "<none>"}, type : {"hw_3BRL"}]

\* _map_event with the test of the phase left out
map_event_any_phase(data) ==
    IF data.button_type \in NotAString \/ data.action \in NotAString
    THEN [button |-> "<none>", action |-> "<none>"]
    ELSE [button |-> Lower(data.button_type), action |-> Lower(data.action)]

\* PicoController._map_event: (button, action), or (None, None)
map_event(data) ==
    IF data.button_type \in NotAString \/ data.action \in NotAString
    THEN [button |-> "<none>", action |-> "<none>"]
    ELSE IF Lower(data.action) \notin {"press", "release"}
    THEN [button |-> "<none>", action |-> "<none>"]
    ELSE [button |-> Lower(data.button_type), action |-> Lower(data.action)]

\* _select_behavior binding 3BRL when the type gives no profile
select_behavior_default(data) ==
    LET normalized == PICO_TYPE_MAP(data.type)
    IN  IF data.type = "<none>" THEN "3BRL"
        ELSE IF normalized = "<none>" THEN "3BRL"
        ELSE IF normalized \notin BEHAVIOR_CLASSES THEN "3BRL"
        ELSE normalized

\* PicoController._select_behavior: the name it binds, "none" when it
\* returns False
select_behavior(data) ==
    LET normalized == PICO_TYPE_MAP(data.type)
    IN  IF data.type = "<none>" THEN "none"
        ELSE IF normalized = "<none>" THEN "none"
        ELSE IF normalized \notin BEHAVIOR_CLASSES THEN "none"
        ELSE normalized

\* every profile with a case for every button in both phases
Routed_all(profile, action, button) == profile \in {"P2B", "2B", "3BRL"}

\* Does the profile's handle_press / handle_release have a case that calls
\* a handler method for the button?  (PaddleSwitchPico: all five, both
\* phases; Pico2Button: on and off; Pico3ButtonRaiseLower: all five on
\* press, raise and lower on release.)
Routed(profile, action, button) ==
    CASE profile = "P2B" -> TRUE
      [] profile = "2B" -> button \in {"on", "off"}
      [] profile = "3BRL" -> action = "press" \/ button \in {"raise", "lower"}
      [] OTHER -> FALSE

\* Does the category's action class define <action>_<button>?
\* CoverActions, FanActions and LightActions define all ten;
\* MediaPlayerActions defines handle_press / handle_release only;
\* SwitchActions defines press_on, press_off, press_raise, press_lower.
HasMethod(dom, action, button) ==
    CASE dom \in {"cover", "fan",  "light"} -> TRUE
      [] dom = "switch" -> action = "press" /\ button \in {"on", "off", "raise", "lower"}
      [] OTHER -> FALSE

\* Is the method an `async def`?  Called as the profiles call it, with no
\* await and no create_task, it returns a coroutine object and runs nothing.
IsCoroutineFunction(dom, action, button) == dom = "switch"

\* What becomes of the call self._behavior.handle_press/handle_release:
\* "ignored" (the profile returns without calling a handler), "raised"
\* (AttributeError), "coroutine" (a coroutine made and dropped), "called".
Outcome(profile, action, button) ==
    CASE profile = "4B" ->
           IF action = "press" /\ button \in SceneButtons THEN "called" ELSE "ignored"
      [] domain = "none" -> "ignored"
      [] ~Routed(profile, action, button) -> "ignored"
      [] ~HasMethod(domain, action, button) -> "raised"
      [] IsCoroutineFunction(domain, action, button) -> "coroutine"
      [] OTHER -> "called"

\* self._behavior.handle_press(button) / handle_release(button)
Profile_handle(profile, action, button) ==
    IF Outcome(profile, action, button) # "called" THEN NoGesture
    ELSE IF profile = "4B" THEN Scene_handle_press(button)
    ELSE IF action = "press" THEN PressHandler(button)
    ELSE ReleaseHandler(button)

\* handle_event selecting the behavior on every event
Bind_every_event(data) == select_behavior(data)

\* handle_event, "First event triggers behavior selection": the profile the
\* event is dispatched to, "none" when there is none
Bind(data) ==
    IF behavior_name = "none" THEN select_behavior(data) ELSE behavior_name

\* an `except` block that gives the subscription up
ExceptBlock_unsubscribe == subscribed' = FALSE

\* handle_event's `except Exception as e:` block: it logs the error
ExceptBlock == UNCHANGED subscribed

\* PicoController.async_start.handle_event
handle_event(data) ==
    LET m == IF data.device_id # "this"
             THEN [button |-> "<none>", action |-> "<none>"]
             ELSE map_event(data)
        dropped == m.button = "<none>" \/ m.button \notin SUPPORTED_BUTTONS
        selected == IF dropped THEN "none" ELSE Bind(data)
        outcome == Outcome(selected, m.action, m.button)
    IN  /\ subscribed
        /\ events < budget
        /\ now <= MaxTime
        /\ ~running
        /\ events' = events + 1
        /\ UNCHANGED << domain, active, budget, cover_open_pos, speeds, conf,
                        direction, moving, entity, now, sink, running, nsleep >>
        /\ IF selected = "none"
           THEN /\ log' = Append(log, [button |-> "-", action |-> "-", same |-> TRUE,
                                       outcome |-> IF dropped THEN "dropped" ELSE "unbound"])
                /\ UNCHANGED << behavior_name, subscribed >>
                /\ NoGesture
           ELSE /\ log' = Append(log, [button |-> m.button, action |-> m.action,
                                       same |-> (select_behavior(data) = selected),
                                       outcome |-> outcome])
                /\ behavior_name' = selected
                /\ IF outcome = "raised" THEN ExceptBlock ELSE UNCHANGED subscribed
                /\ Profile_handle(selected, m.action, m.button)

\* PicoController.async_stop: no action class has reset_state; the listener
\* is removed.
async_stop ==
    /\ subscribed
    /\ subscribed' = FALSE
    /\ UNCHANGED << domain, behavior_name, active, budget, cover_open_pos, speeds,
                    conf, direction, moving, log, entity, now, events, pressed, press_ts, is_holding,
                    tasks, loop_tasks, ready, running, nsleep, sink, presses >>

\* PicoController.async_start on a controller that was stopped
async_start ==
    /\ ~subscribed
    /\ subscribed' = TRUE
    /\ UNCHANGED << domain, behavior_name, active, budget, cover_open_pos, speeds,
                    conf, direction, moving, log, entity, now, events, pressed, press_ts, is_holding,
                    tasks, loop_tasks, ready, running, nsleep, sink, presses >>

\* The controller as constructed: no profile bound yet, any category.
CtlInit ==
    /\ domain \in Categories
    /\ behavior_name = "none"
    /\ active = SUPPORTED_BUTTONS
    /\ budget = MaxEventsCtl
    /\ cover_open_pos = 100
    /\ speeds = fan_speeds
    /\ conf = DefaultConf
    /\ direction \in (IF domain = "fan" THEN {"forward", "none"} ELSE {"none"})
    /\ moving = FALSE
    /\ entity \in InitEntity(domain)
    /\ Quiescent

CtlNext ==
    \/ \E data \in Events : handle_event(data)
    \/ async_stop
    \/ async_start
    \/ RunReady
    \/ \E t \in TaskIds : SinkReturn(t)
    \/ \E t \in TaskIds : TimerWake(t)
    \/ Tick

CtlSpec == CtlInit /\ [][CtlNext]_vars

\* ------------------------------------------------------- history queries
Live(t) == loop_tasks[t].pc # "done"
TasksOf(pid, kind) ==
    {t \in TaskIds : loop_tasks[t].pid = pid /\ loop_tasks[t].kind = kind}
HoldTasks(b) ==
    {t \in TaskIds : loop_tasks[t].kind = "hold" /\ loop_tasks[t].btn = b}
SentBy(T) == {i \in 1..Len(sink) : sink[i].task \in T}
PressIds == 1..Len(presses)
ImmediateTap(b) ==
    \/ domain \in {"fan", "media_player"}
    \/ domain = "light" /\ b \in {"raise", "lower"}
DeferredTap(b) == domain = "light" /\ behavior_name = "P2B" /\ b \in {"on", "off"}

\* ------------------------------------------------------------------- C1
\* C1: after any sequence of presses and releases, every button of a cover,
\* fan, light or media player has at most one hold-timer/ramp task that is
\* neither finished nor cancelled; a press while the button is already
\* pressed cancels the previous task before it starts a new one.
C1_AtMostOneLiveTask ==
    \A b \in Buttons :
        Cardinality({t \in HoldTasks(b) : Live(t) /\ ~loop_tasks[t].cancel}) <= 1

\* ------------------------------------------------------------------- C2
\* C2: once a release of a button has been processed, no ramp loop started
\* for that button by an earlier press sends another step command, whether
\* the loop was in a step or asleep at the release and whether or not the
\* button is pressed again later (fan, light and media player raise/lower,
\* light on/off under P2B).
C2_NoStepAfterRelease ==
    \A i \in 1..Len(sink) :
        LET t == sink[i].task
        IN  (loop_tasks[t].kind = "hold" /\ domain # "cover") => ~sink[i].stale

\* ------------------------------------------------------------------- C3
\* C3: a hold timer still pending when its button is released never later
\* takes the button into Holding, pressed again or not: Holding is entered
\* only after the button has been pressed without a break for the whole of
\* hold_time since its latest press (cover included).
C3_HoldOnlyAfterFullHoldTime ==
    \A t \in TaskIds :
        (loop_tasks[t].kind = "hold" /\ loop_tasks[t].entered # -1) =>
            /\ ~loop_tasks[t].stale
            /\ loop_tasks[t].since >= hold_time

\* ------------------------------------------------------------------- C4
\* C4: a release processed while the button is not pressed does nothing: it
\* creates no task (so sends no command) and changes no gesture state; two
\* releases in a row send at most one stop_cover (cover) and at most one
\* turn_on/turn_off tap (light under P2B).
C4_ReleaseWhenNotPressedIsNoop ==
    [][\A b \in Buttons :
          (Release(b) /\ ~pressed[b]) =>
              UNCHANGED << pressed, press_ts, is_holding, tasks, loop_tasks, ready >>]_vars

\* ------------------------------------------------------------------- C5
\* A press released, with no other press between, before hold_time is up.
Tapped(p) ==
    /\ presses[p].rel # -1
    /\ ~presses[p].sup
    /\ presses[p].rel - presses[p].at < hold_time

\* The fan stands on the end of its speed ladder in the button's direction.
FanAtEnd(ent, b) ==
    LET ladder == Fan_build_speed_ladder(speeds)
    IN  \/ b = "raise" /\ ent >= ladder[Len(ladder)]
        \/ b = "lower" /\ ent <= ladder[1]

CanStep(ent, b) == ent # NoState /\ ~(domain = "fan" /\ FanAtEnd(ent, b))

\* C5: on an immediate-tap button (fan, light, media player raise/lower)
\* whose device state is known and not at the stepping limit, a press
\* followed by a release strictly before hold_time sends exactly one step
\* command and runs no ramp iteration.
C5_TapSendsExactlyOneStep ==
    \A p \in PressIds :
        (ImmediateTap(presses[p].btn) /\ Tapped(p)) =>
            /\ \A h \in TasksOf(p, "hold") :
                  loop_tasks[h].iters = 0 /\ loop_tasks[h].entered = -1
            /\ SentBy(TasksOf(p, "hold")) = {}
            /\ Cardinality(TasksOf(p, "tap")) = 1
            /\ \A t \in TasksOf(p, "tap") :
                  /\ Cardinality(SentBy({t})) <= 1
                  /\ (Done(loop_tasks, t) /\ CanStep(loop_tasks[t].saw, presses[p].btn))
                        => Cardinality(SentBy({t})) = 1

C5_witness ==
    \E p \in PressIds :
        /\ ImmediateTap(presses[p].btn) /\ Tapped(p)
        /\ presses[p].rel > presses[p].at
        /\ now >= presses[p].at + hold_time
        /\ \A h \in TasksOf(p, "hold") : Done(loop_tasks, h)
        /\ \E t \in TasksOf(p, "tap") :
              /\ Done(loop_tasks, t)
              /\ CanStep(loop_tasks[t].saw, presses[p].btn)
              /\ Cardinality(SentBy({t})) = 1

\* ------------------------------------------------------------------- C6
\* A press held for hold_time or longer and then released, with no other
\* press between.
Held(p) ==
    /\ presses[p].rel # -1
    /\ ~presses[p].sup
    /\ presses[p].rel - presses[p].at >= hold_time

\* floor((releaseTime - holdTimeMs - pressTime) / stepTimeMs) + 1
ExpectedSteps(p) ==
    ((presses[p].rel - hold_time - presses[p].at) \div step_time) + 1

\* C6: a press of an immediate-tap button held for hold_time or longer and
\* released at releaseTime, with no other event on the button: after the
\* initial tap step (so the device state is known) the ramp loop sends a
\* step command every step_time from pressTime + hold_time, and the number
\* of commands it has sent is within one of
\* floor((releaseTime - hold_time - pressTime) / step_time) + 1.
C6_RampCommandCount ==
    \A p \in PressIds :
        (ImmediateTap(presses[p].btn) /\ Held(p) /\ entity # NoState) =>
            \A h \in TasksOf(p, "hold") :
                Abs(Cardinality(SentBy({h})) - ExpectedSteps(p)) <= 1

\* C6 as the code has it: the ramp loop of such a press runs an ITERATION
\* every step_time from pressTime + hold_time, and the number of iterations
\* is within one of the formula; an iteration sends one step command when
\* the device state is known (and, for a fan, not at the end of the speed
\* ladder) and none otherwise, so the commands number the iterations for a
\* light or media player of known state, at most the iterations for a fan,
\* and zero when the state is unknown.
C6_RampIterationCount ==
    \A p \in PressIds :
        ImmediateTap(presses[p].btn) =>
            \A h \in TasksOf(p, "hold") :
                LET n == Cardinality(SentBy({h}))
                    start == presses[p].at + hold_time
                IN  /\ loop_tasks[h].iters > 0 =>
                          /\ loop_tasks[h].entered = start
                          /\ loop_tasks[h].last = start + (loop_tasks[h].iters - 1) * step_time
                    /\ Held(p) => Abs(loop_tasks[h].iters - ExpectedSteps(p)) <= 1
                    /\ \A i \in SentBy({h}) :
                          /\ sink[i].at >= start
                          /\ (sink[i].at - start) % step_time = 0
                    /\ n <= loop_tasks[h].iters
                    /\ (entity # NoState /\ domain # "fan") => n = loop_tasks[h].iters
                    /\ entity = NoState => n = 0

C6_witness ==
    \E p \in PressIds :
        /\ ImmediateTap(presses[p].btn) /\ Held(p)
        /\ \E h \in TasksOf(p, "hold") :
              /\ Done(loop_tasks, h)
              /\ loop_tasks[h].iters >= 2
              /\ Cardinality(SentBy({h})) = loop_tasks[h].iters

\* ------------------------------------------------------------------- C7
\* C7: light on/off under P2B: every press that is later released resolves
\* to exactly one of a tap (the press sends nothing, the release sends
\* exactly one turn_on/turn_off and there is no brightness step) and a hold
\* (the ramp runs and the release sends no turn_on/turn_off); never both,
\* never neither.
C7_TapXorHold ==
    \A p \in PressIds :
        (DeferredTap(presses[p].btn) /\ presses[p].rel # -1 /\ ~presses[p].sup) =>
            LET ramped == \E h \in TasksOf(p, "hold") : loop_tasks[h].entered # -1
                taps == TasksOf(p, "onoff")
            IN  \/ /\ Cardinality(taps) = 1
                   /\ ~ramped
                   /\ SentBy(TasksOf(p, "hold")) = {}
                \/ /\ taps = {}
                   /\ ramped

\* ------------------------------------------------------------------- C8
\* C8: cover raise/lower are deferred-tap: a press sends no command; the
\* position step is sent only on a release before hold_time, exactly once,
\* and a press held past hold_time sends a single open/close and no
\* position step.
C8_CoverDeferredTap ==
    domain = "cover" =>
        \A p \in PressIds :
            /\ \A i \in SentBy(TasksOf(p, "tap")) : sink[i].stale
            /\ (\E h \in TasksOf(p, "hold") : loop_tasks[h].entered # -1)
                  => SentBy(TasksOf(p, "tap")) = {}

\* A press still down, with no other press between, when hold_time is up.
HeldPast(p) ==
    /\ ~presses[p].sup
    /\ presses[p].rel = -1 \/ presses[p].rel > presses[p].at + hold_time

\* C8 as the code has it: cover raise/lower are immediate-tap.  Every press
\* sends its position step at once (exactly one set_cover_position when the
\* cover reports a position, none when it does not) and arms a hold timer;
\* a release sends stop_cover only, never a position step; the timer of a
\* press sends at most one open_cover/close_cover, hold_time after the
\* press, and exactly one when the press is held past hold_time - in
\* addition to that press's position step.
C8_CoverImmediateTap ==
    domain = "cover" =>
        /\ \A i \in 1..Len(sink) :
              /\ sink[i].op = "set_cover_position" => loop_tasks[sink[i].task].kind = "tap"
              /\ loop_tasks[sink[i].task].kind = "stop" => sink[i].op = "stop_cover"
        /\ \A p \in PressIds :
              /\ Cardinality(TasksOf(p, "tap")) = 1
              /\ Cardinality(TasksOf(p, "hold")) = 1
              /\ \A t \in TasksOf(p, "tap") :
                    /\ \A i \in SentBy({t}) :
                          /\ sink[i].op = "set_cover_position"
                          /\ sink[i].at = presses[p].at
                    /\ Cardinality(SentBy({t})) <= 1
                    /\ Done(loop_tasks, t) =>
                          Cardinality(SentBy({t})) = IF entity # NoState THEN 1 ELSE 0
              /\ \A h \in TasksOf(p, "hold") :
                    /\ \A i \in SentBy({h}) :
                          /\ sink[i].op = IF presses[p].btn = "raise"
                                          THEN "open_cover" ELSE "close_cover"
                          /\ sink[i].at = presses[p].at + hold_time
                    /\ Cardinality(SentBy({h})) <= 1
                    /\ (HeldPast(p) /\ Done(loop_tasks, h)) =>
                          Cardinality(SentBy({h})) = 1

C8_witness ==
    /\ domain = "cover"
    /\ \E p \in PressIds :
          /\ HeldPast(p)
          /\ presses[p].rel # -1
          /\ Cardinality(SentBy(TasksOf(p, "tap"))) = 1
          /\ Cardinality(SentBy(TasksOf(p, "hold"))) = 1
          /\ Cardinality(SentBy(TasksOf(p, "stop"))) = 1

\* ------------------------------------------------------------------- C9
\* C9: in every cover raise/lower press-release cycle the release sends
\* exactly one stop_cover, and it is the last command of the cycle: no
\* set_cover_position and no open_cover/close_cover that comes from that
\* press (its position step, its hold timer) is sent after the stop.
C9_StopIsTerminal ==
    domain = "cover" =>
        /\ \A p \in PressIds :
              (presses[p].rel # -1 /\ ~presses[p].sup)
                  => Cardinality(TasksOf(p, "stop")) = 1
        /\ \A i \in 1..Len(sink) : \A j \in 1..Len(sink) :
              ~ /\ i < j
                /\ sink[i].op = "stop_cover"
                /\ loop_tasks[sink[i].task].pid # 0
                /\ loop_tasks[sink[j].task].pid = loop_tasks[sink[i].task].pid

\* ------------------------------------------------------------------ C10
\* No press can arrive any more: the run's events are used up or the last
\* tick for events has passed.
NoMorePress == events = budget \/ now > MaxTime

\* Idle: not pressed, and no task of the button is left, the orphaned and
\* the never-cancelled ones included.
Idle(b) ==
    /\ ~pressed[b]
    /\ \A t \in TaskIds : loop_tasks[t].btn = b => Done(loop_tasks, t)

CommandsOf(snk, lt, b) == {i \in 1..Len(snk) : lt[snk[i].task].btn = b}

\* A button that is released with no press of it to come.  The condition
\* is stable: no press sets the flag again.
Quiet(b) == ~pressed[b] /\ NoMorePress

\* C10: for every button, once it is released and no further press of it
\* arrives, it eventually is Idle (not pressed, no live hold-timer or ramp
\* task of it, leftovers included) and stays so, and from then on no
\* command is sent for it - under weak fairness of the task and timer steps.
\* Quiet being stable, "Quiet leads to always Idle" for every button is
\* "from some point on every Quiet button is Idle".
C10_EventuallyIdle ==
    /\ <>[](\A b \in Buttons : Quiet(b) => Idle(b))
    /\ [][\A b \in Buttons :
             (Idle(b) /\ NoMorePress) =>
                 CommandsOf(sink', loop_tasks', b) = CommandsOf(sink, loop_tasks, b)]_vars

C10_witness ==
    \E b \in Buttons :
        /\ Idle(b) /\ NoMorePress
        /\ \E p \in PressIds : presses[p].btn = b
        /\ \E t \in HoldTasks(b) :
              loop_tasks[t].iters >= 1 /\ ~loop_tasks[t].cancel

\* ------------------------------------------------------------------ C11
\* C11: buttons are isolated.  A Press or Release of one button leaves the
\* pressed flag, the press timestamp, the hold flag, the task slot and every
\* task of every other button as they were; so a hold task is cancelled only
\* by a release of its own press, and a ramp running for a held raise keeps
\* sending steps while lower is tapped and released.
OtherButtonsUntouched(b) ==
    \A c \in Buttons \ {b} :
        /\ pressed'[c] = pressed[c]
        /\ press_ts'[c] = press_ts[c]
        /\ is_holding'[c] = is_holding[c]
        /\ tasks'[c] = tasks[c]
        /\ \A t \in TaskIds : loop_tasks[t].btn = c => loop_tasks'[t] = loop_tasks[t]

C11_ButtonsIsolated ==
    /\ [][\A b \in Buttons :
             (Press(b) \/ Release(b)) => OtherButtonsUntouched(b)]_vars
    /\ [](\A t \in TaskIds :
             (loop_tasks[t].kind = "hold" /\ loop_tasks[t].cancel)
                => Released(loop_tasks[t].pid))

\* raise held into its ramp, lower pressed and released during the ramp, and
\* a step of the raise ramp sent after lower's release
C11_witness ==
    \E p, q \in PressIds :
        /\ presses[p].btn = "raise" /\ presses[p].rel = -1 /\ ~presses[p].sup
        /\ presses[q].btn = "lower" /\ presses[q].rel # -1
        /\ \E h \in TasksOf(p, "hold") :
              /\ loop_tasks[h].entered # -1
              /\ loop_tasks[h].entered <= presses[q].at
              /\ ~loop_tasks[h].cancel
              /\ \E i \in SentBy({h}) : sink[i].at > presses[q].rel

\* ------------------------------------------------------------------ C14
\* C14: each run of the media player's On action hands the sink the power-on
\* command and then the unmute command (Off: power-off, then mute), each
\* exactly once and in that order, whether or not the sink refuses either.
SentSeq(t) == SelectSeq(sink, LAMBDA e : e.task = t)

CoverOnOffCmd(b, mov) ==
    IF mov THEN Cover_stop
    ELSE IF b = "on"
         THEN (IF cover_open_pos = 100
               THEN Cmd("open_cover", 0)
               ELSE Cmd("set_cover_position", cover_open_pos))
         ELSE Cmd("close_cover", 0)

C18_CoverOnOff ==
    /\ [][\A b \in {"on", "off"} :
             (domain = "cover" /\ Press(b)) =>
                 /\ Len(loop_tasks') = Len(loop_tasks) + 1
                 /\ sink' = sink
                 /\ CoverOnOffCmd(b, moving) =
                       (CASE loop_tasks'[Len(loop_tasks')].kind = "stop" -> Cover_stop
                          [] loop_tasks'[Len(loop_tasks')].kind = "open" ->
                               Cover_open_to_position(cover_open_pos)
                          [] loop_tasks'[Len(loop_tasks')].kind = "close" -> Cover_close_full
                          [] OTHER -> NoCmd)]_vars
    /\ [][\A b \in {"on", "off"} :
             (domain = "cover" /\ Release(b)) =>
                 (loop_tasks' = loop_tasks /\ ready' = ready /\ sink' = sink)]_vars
    /\ [](domain = "cover" =>
             \A t \in TaskIds :
                 LET sent == SentSeq(t)
                 IN  IF Done(loop_tasks, t)
                     THEN /\ Len(sent) = 1
                          /\ sent[1].op =
                                (CASE loop_tasks[t].kind = "stop" -> "stop_cover"
                                   [] loop_tasks[t].kind = "close" -> "close_cover"
                                   [] loop_tasks[t].kind = "open" /\ cover_open_pos = 100 -> "open_cover"
                                   [] loop_tasks[t].kind = "open" /\ cover_open_pos # 100 -> "set_cover_position"
                                   [] OTHER -> "none")
                          /\ sent[1].op = "set_cover_position" => sent[1].arg = cover_open_pos
                     ELSE sent = << >>)

\* On pressed while the cover was moving (stop_cover sent) and On pressed
\* while it was not, with an open position below 100 (set_cover_position
\* sent), the button released after each
C18_witness ==
    /\ domain = "cover" /\ cover_open_pos # 100
    /\ events = 4
    /\ \E t, u \in TaskIds :
          /\ loop_tasks[t].btn = "on" /\ loop_tasks[t].kind = "stop"
          /\ SentSeq(t) # << >> /\ SentSeq(t)[1].op = "stop_cover"
          /\ loop_tasks[u].btn = "on" /\ loop_tasks[u].kind = "open"
          /\ SentSeq(u) # << >> /\ SentSeq(u)[1].op = "set_cover_position"

\* ------------------------------------------------------------------ C19
\* C19: a fan step never sends a set_percentage value outside 0..100, and
\* every value it sends is one of the ladder's; when the current percentage
\* maps to the top of the ladder a raise sends nothing, and when it maps to
\* the bottom a lower sends nothing.

\* v is i*100/k rounded to the nearest integer, a tie going to the even one.
IsRounded(v, i, k) ==
    /\ 2 * Abs(v * k - i * 100) <= k
    /\ 2 * Abs(v * k - i * 100) = k => v % 2 = 0

\* The reference ladder of n speeds: index 0..n-1.
RefLadder(n) ==
    [i \in 0..(n - 1) |-> CHOOSE v \in 0..100 : IsRounded(v, i, n - 1)]

\* The reference index of a percentage: the nearest ladder value, the lower
\* one when two are equally near.
RefIndex(n, current) ==
    CHOOSE i \in 0..(n - 1) :
        /\ \A j \in 0..(n - 1) :
              Abs(RefLadder(n)[i] - current) <= Abs(RefLadder(n)[j] - current)
        /\ \A j \in 0..(n - 1) :
              Abs(RefLadder(n)[j] - current) = Abs(RefLadder(n)[i] - current) => i <= j

\* What the steps run so far sent: nothing, or one set_percentage.
StepSent(t) == SentSeq(t)

C19_FanStepInRange ==
    /\ \A i \in 1..Len(sink) :
          /\ sink[i].op = "set_percentage"
          /\ sink[i].arg \in 0..100
          /\ \E k \in 0..(speeds - 1) : sink[i].arg = RefLadder(speeds)[k]
    /\ \A t \in TaskIds :
          LET cur == loop_tasks[t].saw
          IN  cur # NoState =>
                /\ (loop_tasks[t].btn = "raise" /\ RefIndex(speeds, cur) = speeds - 1)
                      => StepSent(t) = << >>
                /\ (loop_tasks[t].btn = "lower" /\ RefIndex(speeds, cur) = 0)
                      => StepSent(t) = << >>

\* four speeds (ladder 0, 33, 67, 100): a raise from 100 that sent nothing,
\* after a raise from 67 that sent 100
C19_witness ==
    /\ speeds = 4
    /\ RefLadder(4) = [i \in 0..3 |-> << 0, 33, 67, 100 >>[i + 1]]
    /\ \E t, u \in TaskIds :
          /\ loop_tasks[t].btn = "raise" /\ loop_tasks[t].saw = 67
          /\ StepSent(t) # << >> /\ StepSent(t)[1].arg = 100
          /\ u > t
          /\ loop_tasks[u].btn = "raise" /\ loop_tasks[u].saw = 100
          /\ StepSent(u) = << >>

\* ------------------------------------------------------------------ C20
\* C20: the fan step is the reference step.  With N speeds the ladder is
\* round(i*100/(N-1)) for i in 0..N-1; a step finds the ladder index nearest
\* to the current percentage, moves one index up (raise) or down (lower),
\* clamped to the ladder's ends, and sends the ladder value there - nothing
\* when the index does not move or the fan reports no state.
RefStep(n, current, button) ==
    LET idx == RefIndex(n, current)
        moved == IF button = "raise" THEN idx + 1 ELSE idx - 1
        new_idx == IF moved < 0 THEN 0 ELSE IF moved > n - 1 THEN n - 1 ELSE moved
    IN  IF current = NoState \/ new_idx = idx
        THEN << >>
        ELSE << RefLadder(n)[new_idx] >>

C20_FanStepIsReference ==
    \A t \in TaskIds :
        [i \in 1..Len(StepSent(t)) |-> StepSent(t)[i].arg]
            = RefStep(speeds, loop_tasks[t].saw, loop_tasks[t].btn)

\* six speeds, the fan at 60 (index 3 of 0, 20, 40, 60, 80, 100): a raise
\* that sent 80
C20_witness ==
    /\ speeds = 6
    /\ RefIndex(6, 60) = 3
    /\ \E t \in TaskIds :
          /\ loop_tasks[t].btn = "raise" /\ loop_tasks[t].saw = 60
          /\ StepSent(t) # << >> /\ StepSent(t)[1].arg = 80

\* ------------------------------------------------------------------ C12
\* C12: for every category, every profile (P2B, 2B, 3BRL) and every
\* (button, phase) the profile routes, the call reaches a method the
\* category's handler has and completes without raising.
C12_RoutedCallReachesMethod ==
    \A i \in 1..Len(log) : log[i].outcome # "raised"

\* ------------------------------------------------------------------ C13
\* C13: for a switch, every On Press the controller dispatches through the
\* bound profile (P2B, 2B or 3BRL) has sent exactly one turn_on by the time
\* the loop has run what was ready, and every Off Press exactly one
\* turn_off.
Dispatched(button, action) ==
    {i \in 1..Len(log) : log[i].button = button /\ log[i].action = action}

SinkOps(op) == {i \in 1..Len(sink) : sink[i].op = op}

C13_SwitchOnOff ==
    (domain = "switch" /\ behavior_name \in {"P2B", "2B", "3BRL"} /\ ready = << >>) =>
        /\ Cardinality(SinkOps("turn_on")) = Cardinality(Dispatched("on", "press"))
        /\ Cardinality(SinkOps("turn_off")) = Cardinality(Dispatched("off", "press"))

\* ------------------------------------------------------------------ C15
\* C15: an exception raised in a profile or handler during dispatch stays
\* inside handle_event: the subscription is kept, the profile stays bound,
\* no gesture state, task or command changes, and the next event is
\* dispatched.  A device with no category, a button the profile has no case
\* for, or a category without handler sends nothing and raises nothing.
\* (The log grows in handle_event and nowhere else.)
GestureUnchanged ==
    UNCHANGED << pressed, press_ts, is_holding, tasks, loop_tasks, ready, presses,
                 sink, entity >>

LastOutcome(lg) == lg[Len(lg)].outcome

MustDrop(data) ==
    \/ data.device_id # "this"
    \/ data.button_type \in NotAString
    \/ Lower(data.button_type) \notin {"on", "off", "stop", "raise", "lower"}
    \/ data.action \in NotAString
    \/ Lower(data.action) \notin {"press", "release"}

C16_MalformedEventDropped ==
    [][\A data \in Events :
          (MustDrop(data) /\ log' # log /\ handle_event(data)) =>
              /\ GestureUnchanged
              /\ behavior_name' = behavior_name
              /\ LastOutcome(log') = "dropped"]_vars

\* a cover: an event was dropped while no profile was bound, and the next
\* event bound one and had its command sent
C16_witness ==
    /\ domain = "cover"
    /\ Len(log) = 2
    /\ log[1].outcome = "dropped"
    /\ log[2].outcome = "called"
    /\ behavior_name # "none"
    /\ sink # << >>

\* ------------------------------------------------------------------ C17
\* C17: once a profile is bound, no event - whatever hardware type it
\* carries - and no async_stop changes the bound profile or its name.
C17_BindingImmutable ==
    [][behavior_name # "none" => behavior_name' = behavior_name]_vars

\* a profile was bound by the first event, the second event carried a
\* hardware type of another profile (or of none) and was dispatched, and the
\* controller has been stopped
C17_witness ==
    /\ behavior_name \in BEHAVIOR_CLASSES
    /\ Len(log) = 2
    /\ log[1].same /\ log[1].outcome \notin {"dropped", "unbound"}
    /\ ~log[2].same /\ log[2].outcome \notin {"dropped", "unbound"}
    /\ ~subscribed

\* ------------------------------------------------------------------ C21
\* C21: a fan that reports a state but no percentage is stepped from 0 when
\* the state is off and from the configured on-percent when it is any other
\* state; a fan with no state at all is sent nothing.
ArgsSent(t) == [i \in 1..Len(SentSeq(t)) |-> SentSeq(t)[i].arg]

C21_FanWithoutPercentage ==
    domain = "fan" =>
        \A t \in TaskIds :
            LET cur == loop_tasks[t].saw
                b == loop_tasks[t].btn
            IN  /\ cur = StateOff => ArgsSent(t) = RefStep(speeds, 0, b)
                /\ cur = StateOther => ArgsSent(t) = RefStep(speeds, conf.fan_on_pct, b)
                /\ cur = NoState => ArgsSent(t) = << >>

\* three speeds (0, 50, 100), on-percent 50: a raise of a fan that is on
\* without a percentage sent 100
C21_witness ==
    /\ domain = "fan" /\ speeds = 3 /\ conf.fan_on_pct = 50
    /\ \E t \in TaskIds :
          /\ loop_tasks[t].saw = StateOther /\ loop_tasks[t].btn = "raise"
          /\ ArgsSent(t) = << 100 >>

\* ------------------------------------------------------------------ C22
\* C22: whatever the brightness reported, the step percent and the low
\* bound, a light's lower step never sends a brightness_pct below the low
\* bound and a raise step never sends one above 100.
C22_LightStepBounds ==
    domain = "light" =>
        \A i \in 1..Len(sink) :
            /\ sink[i].op = "turn_on"
            /\ loop_tasks[sink[i].task].btn = "lower" => sink[i].arg >= conf.light_low_pct
            /\ loop_tasks[sink[i].task].btn = "raise" => sink[i].arg <= 100

\* step 40, low bound 50: a lower from brightness 128 (50%) sent 50, not 10
C22_witness ==
    /\ domain = "light" /\ conf.light_step_pct = 40 /\ conf.light_low_pct = 50
    /\ \E t \in TaskIds :
          /\ loop_tasks[t].saw = 128 /\ loop_tasks[t].btn = "lower"
          /\ ArgsSent(t) = << 50 >>

\* ------------------------------------------------------------------ C23
\* C23: a light step is the reference step.  The current percent is the
\* reported brightness (0..255) times 100 / 255, rounded; a raise sends
\* min(100, current + step percent), a lower max(low bound, current - step
\* percent).

\* raw * 100 / 255 rounded to the nearest integer (it is never half-way)
RefPct(raw) == CHOOSE v \in 0..100 : 2 * Abs(v * 255 - raw * 100) <= 255

RefLightStep(raw, step_pct, low_pct, button) ==
    LET up == RefPct(raw) + step_pct
        down == RefPct(raw) - step_pct
    IN  IF button = "raise"
        THEN (IF up > 100 THEN 100 ELSE up)
        ELSE (IF down < low_pct THEN low_pct ELSE down)

C23_LightStepIsReference ==
    domain = "light" =>
        \A t \in TaskIds :
            loop_tasks[t].saw \in 0..255 =>
                ArgsSent(t) = << RefLightStep(loop_tasks[t].saw, conf.light_step_pct,
                                              conf.light_low_pct, loop_tasks[t].btn) >>

\* step 10, low bound 5: a lower from brightness 128 (50%) sent 40
C23_witness ==
    /\ domain = "light" /\ conf.light_step_pct = 10 /\ conf.light_low_pct = 5
    /\ RefPct(128) = 50
    /\ \E t \in TaskIds :
          /\ loop_tasks[t].saw = 128 /\ loop_tasks[t].btn = "lower"
          /\ ArgsSent(t) = << 40 >>

\* ------------------------------------------------------------------ C24
\* C24: a cover step from a reported position p with step s sends
\* set_cover_position(min(100, p + s)) on raise and
\* set_cover_position(max(0, p - s)) on lower, always a position in 0..100;
\* with no position reported it sends nothing.
RefCoverStep(p, st, button) ==
    IF button = "raise"
    THEN (IF p + st > 100 THEN 100 ELSE p + st)
    ELSE (IF p - st < 0 THEN 0 ELSE p - st)

C24_CoverStep ==
    domain = "cover" =>
        \A t \in TaskIds :
            LET p == loop_tasks[t].saw
            IN  IF p \in 0..100
                THEN /\ Len(SentSeq(t)) = 1
                     /\ SentSeq(t)[1].op = "set_cover_position"
                     /\ SentSeq(t)[1].arg = RefCoverStep(p, conf.cover_step_pct, loop_tasks[t].btn)
                     /\ SentSeq(t)[1].arg \in 0..100
                ELSE SentSeq(t) = << >>

\* step 50: a raise from 75 sent 100 and the lower after it sent 50
C24_witness ==
    /\ domain = "cover" /\ conf.cover_step_pct = 50
    /\ \E t, u \in TaskIds :
          /\ loop_tasks[t].saw = 75 /\ loop_tasks[t].btn = "raise"
          /\ ArgsSent(t) = << 100 >>
          /\ loop_tasks[u].saw = 100 /\ loop_tasks[u].btn = "lower"
          /\ ArgsSent(u) = << 50 >>

\* ---------------------------------------------------------------------------
\* C25: a Stop press on a cover, fan or light with a non-empty middle-button
\* list creates one task per configured entry and nothing else, and the tasks
\* of the Stop button send only configured commands, never the category's
\* default; with an empty list the cover's Stop sends stop_cover once, the
\* fan's Stop sends set_direction with the opposite direction when the fan
\* reports forward or reverse and nothing otherwise, and the light's Stop
\* creates no task and sends nothing.  A Stop press leaves the gesture state,
\* the task handles and every existing task as they were.
ConfiguredServices ==
    {l.svc : l \in {lf \in UNION {{Leaves(conf.middle_button[i])[j] :
                                      j \in 1..Len(Leaves(conf.middle_button[i]))} :
                                  i \in 1..Len(conf.middle_button)} : lf.shape = "dict"}}

Opposite(d) == IF d = "forward" THEN "reverse" ELSE "forward"

C25_StopCreates ==
    Press("stop") =>
        LET n == Len(loop_tasks)
            new == SubSeq(loop_tasks', n + 1, Len(loop_tasks'))
        IN  /\ UNCHANGED << pressed, press_ts, is_holding, tasks, sink >>
            /\ SubSeq(loop_tasks', 1, n) = loop_tasks
            /\ \A i \in 1..Len(new) : new[i].btn = "stop" /\ new[i].pc = "new"
            /\ IF conf.middle_button # << >>
               THEN /\ Len(new) = Len(conf.middle_button)
                    /\ \A i \in 1..Len(new) : new[i].kind = "exec" /\ new[i].item = i
               ELSE CASE domain = "cover" -> Len(new) = 1 /\ new[1].kind = "stop"
                      [] domain = "fan" -> Len(new) = 1 /\ new[1].kind = "reverse"
                      [] domain = "light" -> new = << >>

C25_StopSends ==
    \A i \in 1..Len(sink) :
        loop_tasks[sink[i].task].btn = "stop" =>
            IF conf.middle_button # << >>
            THEN sink[i].op \in ConfiguredServices
            ELSE \/ domain = "cover" /\ sink[i].op = "stop_cover"
                 \/ domain = "fan" /\ sink[i].op = "set_direction"

C25_DefaultRuns ==
    \A t \in TaskIds :
        (loop_tasks[t].btn = "stop" /\ loop_tasks[t].pc = "new" /\ loop_tasks'[t].pc # "new") =>
            CASE loop_tasks[t].kind = "stop" ->
                     /\ Len(sink') = Len(sink) + 1
                     /\ sink'[Len(sink')].op = "stop_cover"
                     /\ sink'[Len(sink')].task = t
              [] loop_tasks[t].kind = "reverse" ->
                     IF entity # NoState /\ direction \in {"forward", "reverse"}
                     THEN /\ Len(sink') = Len(sink) + 1
                          /\ sink'[Len(sink')].op = "set_direction"
                          /\ sink'[Len(sink')].arg = Opposite(direction)
                          /\ sink'[Len(sink')].task = t
                          /\ loop_tasks'[t].pc = "done"
                     ELSE sink' = sink /\ loop_tasks'[t].pc = "done"
              [] OTHER -> TRUE

C25_StopPress ==
    /\ [][C25_StopCreates]_vars
    /\ [][C25_DefaultRuns]_vars
    /\ [](domain \in {"cover", "fan", "light"} => C25_StopSends)

\* a cover with two configured middle-button commands: Stop was pressed while
\* Raise was held, both configured commands and no stop_cover were sent, and
\* the hold of Raise went on to open the cover
C25_witness ==
    /\ domain = "cover"
    /\ Len(conf.middle_button) = 2
    /\ pressed["raise"]
    /\ SinkOps("stop_cover") = {}
    /\ \E i \in SinkOps("a"), j \in SinkOps("b"), k \in SinkOps("open_cover") :
           /\ i < j /\ j < k
           /\ loop_tasks[sink[i].task].btn = "stop"
           /\ loop_tasks[sink[j].task].btn = "stop"
           /\ loop_tasks[sink[k].task].btn = "raise"

\* ---------------------------------------------------------------------------
\* C26: a task executing a configured entry goes through every member of the
\* entry: what it has handed to the sink is, in order, the service of every
\* well-formed member it has passed, whether the sink accepted or refused
\* them; the malformed members (not a mapping, or an action string without
\* domain.service) sent nothing; and the task ends only after the last member.
\* A Stop press creates a task for every entry of the middle-button list, and
\* a scene button press one for every mapping of the button's list.
TaskLeaves(t) ==
    IF loop_tasks[t].kind = "exec"
    THEN Leaves(conf.middle_button[loop_tasks[t].item])
    ELSE Leaves(conf.buttons[loop_tasks[t].btn][loop_tasks[t].item])

ServicesOf(leaves) ==
    LET wf == SelectSeq(leaves, LAMBDA l : l.shape = "dict")
    IN  [i \in 1..Len(wf) |-> wf[i].svc]

C26_TaskRunsAll ==
    \A t \in TaskIds :
        loop_tasks[t].kind \in {"exec", "scene"} =>
            LET lv == TaskLeaves(t)
                k == loop_tasks[t].iters
                mine == SentSeq(t)
            IN  /\ [i \in 1..Len(mine) |-> mine[i].op] = ServicesOf(SubSeq(lv, 1, k))
                /\ loop_tasks[t].pc \in {"new", "call", "done"}
                /\ loop_tasks[t].pc = "new" => k = 0
                /\ loop_tasks[t].pc = "call" => k < Len(lv) /\ lv[k].shape = "dict"
                /\ loop_tasks[t].pc = "done" => k = Len(lv)

C26_TaskPerEntry ==
    LET n == Len(loop_tasks)
        new == SubSeq(loop_tasks', n + 1, Len(loop_tasks'))
    IN  /\ (Press("stop") /\ conf.middle_button # << >>) =>
               [i \in 1..Len(new) |-> new[i].item] = [i \in 1..Len(conf.middle_button) |-> i]
        /\ \A b \in SceneButtons :
               ScenePress(b) =>
                   LET maps == {i \in 1..Len(conf.buttons[b]) :
                                    conf.buttons[b][i].shape \in {"dict", "nodot"}}
                   IN  /\ {new[i].item : i \in 1..Len(new)} = maps
                       /\ Len(new) = Cardinality(maps)
                       /\ \A i \in 1..Len(new) : new[i].kind = "scene" /\ new[i].btn = b

C26_EveryItemProcessed ==
    /\ []C26_TaskRunsAll
    /\ [][C26_TaskPerEntry]_vars

\* a nested list of a command, a non-mapping and a command: the sink refused
\* the first command, and the task still sent the last one and ended
C26_witness ==
    \E t \in TaskIds :
        /\ loop_tasks[t].kind = "exec"
        /\ loop_tasks[t].pc = "done"
        /\ Len(TaskLeaves(t)) = 3
        /\ TaskLeaves(t)[2].shape = "nodict"
        /\ Len(SentSeq(t)) = 2
        /\ ~SentSeq(t)[1].ok
        /\ SentSeq(t)[2].op = "b"

\* ---------------------------------------------------------------------------
\* C27: the commands of the tasks one Stop press or one scene button press
\* created reach the sink in the order of the configured list: a command of
\* an earlier entry is never handed to the sink after a command of a later
\* entry of the same press.
C27_ListOrder ==
    \A i, j \in 1..Len(sink) :
        LET t == loop_tasks[sink[i].task]
            u == loop_tasks[sink[j].task]
        IN  (/\ i < j
             /\ t.kind \in {"exec", "scene"}
             /\ u.kind = t.kind
             /\ u.ev = t.ev) => t.item <= u.item

\* the same order for the lists whose entries are single commands
C27_FlatListOrder ==
    (\A i \in 1..Len(conf.middle_button) : conf.middle_button[i].shape # "list")
        => C27_ListOrder

\* ---------------------------------------------------------------------------
\* C28: while the service call of a ramp task has not returned, and never
\* does, a press and a release of every button of the remote can still be
\* handled; a release then clears the button's pressed flag and cancels the
\* task the handler holds for the button; and a task waiting in such a call
\* hands nothing more to the sink: once cancelled it ends at its next step.
Stalled(t) == loop_tasks[t].pc = "call"

C28_NotBlocked ==
    (/\ \E t \in TaskIds : Stalled(t)
     /\ events < budget
     /\ now <= MaxTime
     /\ ~running) =>
        \A b \in active : (ENABLED Press(b)) /\ (ENABLED Release(b))

C28_ReleaseActs ==
    \A b \in active :
        (Release(b) /\ \E t \in TaskIds : Stalled(t)) =>
            /\ ~pressed'[b]
            /\ tasks'[b] = NoTask
            /\ (tasks[b] # NoTask /\ ~Done(loop_tasks, tasks[b]))
                   => loop_tasks'[tasks[b]].cancel

C28_StalledSilent ==
    \A t \in TaskIds :
        Stalled(t) =>
            /\ Len(sink') > Len(sink) => sink'[Len(sink')].task # t
            /\ loop_tasks'[t].pc \in {"call", "done"}
            /\ loop_tasks'[t].pc = "done" => loop_tasks[t].cancel

C28_StallDoesNotBlock ==
    /\ []C28_NotBlocked
    /\ [][C28_ReleaseActs]_vars
    /\ [][C28_StalledSilent]_vars

\* the ramp of a held button is waiting in its first service call; after
\* that call was made the other button was pressed and the held button
\* released, which cancelled the waiting task
C28_witness ==
    \E t \in TaskIds :
        LET b == loop_tasks[t].btn
            p == loop_tasks[t].pid
        IN  /\ loop_tasks[t].kind = "hold"
            /\ Stalled(t)
            /\ loop_tasks[t].cancel
            /\ ~pressed[b]
            /\ Len(SentSeq(t)) = 1
            /\ presses[p].rel > SentSeq(t)[1].at
            /\ \E q \in 1..Len(presses) :
                   /\ presses[q].btn # b
                   /\ presses[q].at > SentSeq(t)[1].at
                   /\ pressed[presses[q].btn]

\* ---------------------------------------------------------------------------
\* C29: an event the controller dispatches for Stop, Raise or Lower of a
\* switch (press or release), or for Stop of a media player, raises no error
\* inside the dispatch, creates no task and hands nothing to the sink.
C29_InScope(dom, button) ==
    \/ dom = "switch" /\ button \in {"stop", "raise", "lower"}
    \/ dom = "media_player" /\ button = "stop"

C29_ExplicitNoOps ==
    [][(log' # log /\ C29_InScope(domain, log'[Len(log')].button)) =>
           /\ LastOutcome(log') # "raised"
           /\ GestureUnchanged]_vars

\* the part of it that holds: whatever becomes of the call, nothing is sent
\* and no task is created
C29_NothingSent ==
    [][(log' # log /\ C29_InScope(domain, log'[Len(log')].button)) =>
           GestureUnchanged]_vars

\* ---------------------------------------------------------------------------
\* C30: for a light, the profile bound to the remote alone decides what an
\* On/Off event does.  Under P2B a press sends nothing, sets the pressed flag
\* and starts the button's hold timer, and the release clears the flag and,
\* unless the hold was entered, creates the task of the tap.  Under 2B and
\* 3BRL a press creates the one-shot task of turn_on(light_on_pct) / turn_off
\* and touches neither the gesture state nor the button's task slot, a release
\* changes nothing, and once the loop has run what was ready exactly one
\* turn_on / turn_off has been sent per press.
LastEntry == log'[Len(log')]

NewTasks == SubSeq(loop_tasks', Len(loop_tasks) + 1, Len(loop_tasks'))

OnOffSent(b) ==
    {i \in 1..Len(sink) : /\ loop_tasks[sink[i].task].kind = "onoff"
                          /\ loop_tasks[sink[i].task].btn = b}

C30_OnOffEvent ==
    (/\ log' # log
     /\ domain = "light"
     /\ LastEntry.button \in {"on", "off"}
     /\ behavior_name' \in {"P2B", "2B", "3BRL"}) =>
        LET b == LastEntry.button
            n == Len(loop_tasks)
        IN  /\ sink' = sink
            /\ CASE behavior_name' = "P2B" /\ LastEntry.action = "press" ->
                      /\ pressed'[b] /\ ~is_holding'[b]
                      /\ Len(NewTasks) = 1
                      /\ NewTasks[1].kind = "hold" /\ NewTasks[1].btn = b
                      /\ tasks'[b] = n + 1
                 [] behavior_name' = "P2B" /\ LastEntry.action = "release" ->
                      /\ ~pressed'[b] /\ tasks'[b] = NoTask
                      /\ IF is_holding[b]
                         THEN NewTasks = << >>
                         ELSE /\ Len(NewTasks) = 1
                              /\ NewTasks[1].kind = "onoff" /\ NewTasks[1].btn = b
                 [] behavior_name' # "P2B" /\ LastEntry.action = "press" ->
                      /\ Len(NewTasks) = 1
                      /\ NewTasks[1].kind = "onoff" /\ NewTasks[1].btn = b
                      /\ SubSeq(loop_tasks', 1, n) = loop_tasks
                      /\ UNCHANGED << pressed, press_ts, is_holding, tasks >>
                 [] OTHER -> GestureUnchanged

C30_OnOffTask ==
    \A t \in TaskIds :
        (domain = "light" /\ loop_tasks[t].kind = "onoff") =>
            LET mine == SentSeq(t)
            IN  CASE loop_tasks[t].pc = "new" -> mine = << >>
                  [] loop_tasks[t].pc = "done" ->
                       \/ loop_tasks[t].cancel /\ mine = << >>
                       \/ /\ Len(mine) = 1
                          /\ Cmd(mine[1].op, mine[1].arg)
                                 = (IF loop_tasks[t].btn = "on"
                                    THEN Cmd("turn_on", light_on_pct)
                                    ELSE Cmd("turn_off", 0))
                  [] OTHER -> FALSE

C30_TapOnly ==
    (domain = "light" /\ behavior_name \in {"2B", "3BRL"} /\ ready = << >>) =>
        \A b \in {"on", "off"} :
            /\ Cardinality(OnOffSent(b)) = Cardinality(Dispatched(b, "press"))
            /\ tasks[b] = NoTask /\ ~pressed[b]

C30_LightOnOffPolicy ==
    /\ [][C30_OnOffEvent]_vars
    /\ [](C30_OnOffTask /\ C30_TapOnly)

\* a light behind a 2B remote: On was pressed and released, and exactly one
\* turn_on(light_on_pct) was sent, by a one-shot task
C30_witness ==
    /\ domain = "light"
    /\ behavior_name = "2B"
    /\ Dispatched("on", "press") # {}
    /\ Dispatched("on", "release") # {}
    /\ ready = << >>
    /\ Len(sink) = 1
    /\ sink[1].op = "turn_on" /\ sink[1].arg = light_on_pct
    /\ loop_tasks[sink[1].task].kind = "onoff"

\* the statement for every profile other than P2B: one turn_on / turn_off
\* per dispatched On/Off press
C30_EveryOtherProfile ==
    (domain = "light" /\ behavior_name \notin {"none", "P2B"} /\ ready = << >>) =>
        \A b \in {"on", "off"} :
            Cardinality(OnOffSent(b)) = Cardinality(Dispatched(b, "press"))

\* ---------------------------------------------------------------------------
\* C31: a media player volume step from a reported volume of v percent with
\* step s sends volume_set with min(100, v + s) percent on raise and
\* max(0, v - s) percent on lower, always a level in 0..100 percent; a state
\* without volume_level counts as 0 and a level above 1.0 as 1.0; with no
\* state it sends nothing.
RefVolume(v) == IF v < 0 THEN 0 ELSE IF v > 100 THEN 100 ELSE v

RefVolumeStep(v, st, button) ==
    IF button = "raise"
    THEN (IF v + st > 100 THEN 100 ELSE v + st)
    ELSE (IF v - st < 0 THEN 0 ELSE v - st)

C31_VolumeStep ==
    domain = "media_player" =>
        \A t \in TaskIds :
            LET v == loop_tasks[t].saw
            IN  IF v = NoState
                THEN SentSeq(t) = << >>
                ELSE /\ Len(SentSeq(t)) = 1
                     /\ SentSeq(t)[1].op = "volume_set"
                     /\ SentSeq(t)[1].arg = RefVolumeStep(RefVolume(v), conf.media_player_vol_step,
                                                          loop_tasks[t].btn)
                     /\ SentSeq(t)[1].arg \in 0..100

\* step 10: a raise from 95 percent sent 100
C31_witness ==
    /\ domain = "media_player" /\ conf.media_player_vol_step = 10
    /\ \E t \in TaskIds :
          /\ loop_tasks[t].saw = 95 /\ loop_tasks[t].btn = "raise"
          /\ ArgsSent(t) = << 100 >>

\* ---------------------------------------------------------------------------
\* C32: once async_stop has returned, and until the controller is started
\* again, no button is pressed in any handler, every hold-timer or ramp task
\* is cancelled or over, and nothing more is handed to the sink.
C32_StoppedIsReset ==
    ~subscribed =>
        /\ \A b \in Buttons : ~pressed[b] /\ tasks[b] = NoTask
        /\ \A t \in TaskIds :
               loop_tasks[t].kind = "hold" => (Done(loop_tasks, t) \/ loop_tasks[t].cancel)

C32_StoppedIsSilent == ~subscribed => sink' = sink

C32_AsyncStopResets ==
    /\ []C32_StoppedIsReset
    /\ [][C32_StoppedIsSilent]_vars

\* ---------------------------------------------------------------------------
\* C33: while a light is being lowered from a brightness not below the low
\* bound, the light reporting what it was last sent, every brightness sent is
\* at least the low bound and each one is the previous one less the step, or
\* the low bound when that would be lower: the sequence never increases,
\* strictly decreases until it is the low bound and repeats the low bound
\* from then on.
C33_LowerRamp ==
    \A i \in 1..Len(sink) :
        /\ sink[i].op = "turn_on"
        /\ sink[i].arg >= conf.light_low_pct
        /\ i > 1 =>
              /\ sink[i].arg <= sink[i - 1].arg
              /\ sink[i].arg = (IF sink[i - 1].arg - conf.light_step_pct > conf.light_low_pct
                                THEN sink[i - 1].arg - conf.light_step_pct
                                ELSE conf.light_low_pct)
              /\ sink[i - 1].arg = conf.light_low_pct => sink[i].arg = conf.light_low_pct

\* step 40, low bound 5, lowered from 50 percent: the tap sent 10, and the
\* ramp of the held button sent the low bound three times over
C33_witness ==
    /\ conf.light_step_pct = 40 /\ conf.light_low_pct = 5
    /\ pressed["lower"]
    /\ \E t \in TaskIds :
          /\ loop_tasks[t].kind = "hold"
          /\ Len(SentSeq(t)) >= 3
          /\ \A k \in 1..Len(SentSeq(t)) : SentSeq(t)[k].arg = 5
    /\ sink[1].arg = 10

\* ---------------------------------------------------------------------------
\* C34: a light's lower step taken while the brightness is below the low
\* bound (a light reporting no brightness counts as 0) sends the low bound
\* itself, which is above the current brightness; and every step, raise or
\* lower, of a light that has a state sends exactly one brightness_pct in
\* 1..100, never 0, whatever the low bound.
C34_LowerBelowLowBound ==
    \A t \in TaskIds :
        LET raw == loop_tasks[t].saw
            cur == IF raw < 0 THEN 0 ELSE RefPct(raw)
        IN  raw # NoState =>
                /\ Len(SentSeq(t)) = 1
                /\ SentSeq(t)[1].op = "turn_on"
                /\ SentSeq(t)[1].arg \in 1..100
                /\ (loop_tasks[t].btn = "lower" /\ cur < conf.light_low_pct) =>
                       /\ SentSeq(t)[1].arg = conf.light_low_pct
                       /\ SentSeq(t)[1].arg > cur

\* low bound 50: a lower of a light that reports no brightness sent 50
C34_witness ==
    /\ conf.light_low_pct = 50
    /\ \E t \in TaskIds :
          /\ loop_tasks[t].btn = "lower"
          /\ loop_tasks[t].saw = StateOff
          /\ ArgsSent(t) = << 50 >>

\* ---------------------------------------------------------------------------
\* C35: while no profile is bound, an accepted event whose hardware type is
\* missing, unknown or has no implementation leaves the controller unbound
\* and subscribed, sends nothing and changes no gesture state or task; and
\* every accepted event, however many failed before it, whose type names an
\* implemented profile binds that profile and is dispatched to it.
TypeFails(data) ==
    \/ data.type = "<none>"
    \/ data.type \notin {"hw_P2B", "hw_2B", "hw_3BRL", "hw_4B"}

C35_SelectionRetried ==
    [][(log' # log /\ behavior_name = "none") =>
          \A data \in Events :
              (handle_event(data) /\ ~MustDrop(data)) =>
                  IF TypeFails(data)
                  THEN /\ behavior_name' = "none"
                       /\ LastOutcome(log') = "unbound"
                       /\ subscribed'
                       /\ GestureUnchanged
                  ELSE /\ behavior_name' = PICO_TYPE_MAP(data.type)
                       /\ behavior_name' \in BEHAVIOR_CLASSES
                       /\ LastOutcome(log') \in {"called", "ignored", "raised", "coroutine"}
                       /\ log'[Len(log')].button = Lower(data.button_type)
                       /\ log'[Len(log')].action = Lower(data.action)]_vars

\* a fan: the first event could not select a profile and was dropped, the
\* next one bound a profile, was dispatched and had its command sent
C35_witness ==
    /\ domain = "fan"
    /\ Len(log) = 2
    /\ log[1].outcome = "unbound"
    /\ log[2].outcome = "called"
    /\ behavior_name \in BEHAVIOR_CLASSES
    /\ sink # << >>

\* ---------------------------------------------------------------------------
\* C36: under the 2B profile an event of Stop, Raise or Lower, press or
\* release, and under the 3BRL profile a release of On, Off or Stop, is not
\* passed on to the handler: nothing is sent, no task is created, and the
\* pressed flags, holding flags and task handles stay as they were; the
\* dispatch raises no error.
C36_NotRouted(profile, action, button) ==
    \/ profile = "2B" /\ button \in {"stop", "raise", "lower"}
    \/ profile = "3BRL" /\ action = "release" /\ button \in {"on", "off", "stop"}

C36_UnroutedChangesNothing ==
    [][(log' # log /\ C36_NotRouted(behavior_name', LastEntry.action, LastEntry.button)) =>
          /\ GestureUnchanged
          /\ LastOutcome(log') = "ignored"]_vars

\* a fan behind a 2B remote: On was pressed and its command sent, then Raise
\* was pressed and nothing more happened
C36_witness ==
    /\ domain = "fan"
    /\ behavior_name = "2B"
    /\ Len(log) = 2
    /\ log[1].button = "on" /\ log[1].outcome = "called"
    /\ log[2].button = "raise" /\ log[2].action = "press"
    /\ ready = << >>
    /\ Len(loop_tasks) = 1
    /\ Len(sink) = 1
    /\ \A b \in Buttons : ~pressed[b]

\* ---------------------------------------------------------------------------
\* C37: for every configuration of the entity lists, entity_domain() and
\* primary_entity() agree: the category is that of the first non-empty list
\* in the order cover, light, fan, media_player, switch, and the primary
\* entity is the first element of that very list; both are None exactly when
\* all five lists are empty.  So the state a handler reads is that of an
\* entity among those a command of its category is sent to.
C37_AllEmpty == \A k \in 1..5 : conf[EntityLists[k]] = << >>

C37_DomainAndPrimaryAgree ==
    log # << >> =>
        /\ (domain = "none") <=> C37_AllEmpty
        /\ (log[1].primary = NoEntity) <=> C37_AllEmpty
        /\ C37_AllEmpty => entity = NoState
        /\ ~C37_AllEmpty =>
              \E k \in 1..5 :
                  /\ conf[EntityLists[k]] # << >>
                  /\ \A j \in 1..(k - 1) : conf[EntityLists[j]] = << >>
                  /\ domain = EntityCategory[k]
                  /\ log[1].primary = conf[EntityLists[k]][1]
                  /\ log[1].primary[1] = domain
                  /\ log[1].targets = conf[EntityLists[k]]
                  /\ entity = hass_states_get(conf[EntityLists[k]][1])

\* lights, fans and switches configured, no cover: the light list wins and its
\* first entity, not the first listed by number, is read
C37_witness ==
    /\ log # << >>
    /\ conf.covers = << >>
    /\ conf.lights = << << "light", 2 >>, << "light", 1 >> >>
    /\ conf.fans # << >> /\ conf.switches # << >>
    /\ domain = "light"
    /\ log[1].primary = << "light", 2 >>
    /\ entity = NoState

\* ---------------------------------------------------------------------------
\* C38: in the Light handler, in every reachable state and for every button,
\* the holding flag implies the pressed flag, and a button that is not
\* pressed has no stored task handle; presses repeated without a release and
\* timers firing in between do not break this.
C38_LightFlags ==
    domain = "light" =>
        \A b \in Buttons :
            /\ is_holding[b] => pressed[b]
            /\ ~pressed[b] => tasks[b] = NoTask

\* a button of the light pressed twice without a release and then released,
\* while the hold task of the first press, which no release cancelled, is
\* still alive
C38_witness ==
    /\ domain = "light"
    /\ \E i \in PressIds :
           /\ presses[i].sup
           /\ presses[i].rel # -1
           /\ ~pressed[presses[i].btn]
           /\ ~is_holding[presses[i].btn]
           /\ tasks[presses[i].btn] = NoTask
           /\ \E t \in HoldTasks(presses[i].btn) : loop_tasks[t].pid = i /\ Live(t)


====
